---- MODULE Spec2Model ----
(***************************************************************************)
(* Mood analytics of the mental-health tracker: the streak calculator of   *)
(* GET /api/user-stats, the consecutive-sad-day detector and trend of      *)
(* POST /api/n8n/trigger, and the pattern analysis of                      *)
(* POST /api/analytics/mood-pattern.                                       *)
(*                                                                         *)
(* Time is counted in whole hours since an epoch whose day 0 is a Sunday.  *)
(* An instant t lies on UTC day t \div 24.  A JavaScript Date is an        *)
(* instant; its local fields (getDate, setHours, setDate, getDay) are read *)
(* through the server's time zone, toISOString through UTC.                *)
(***************************************************************************)
EXTENDS Integers, Sequences, FiniteSets, TLC

VARIABLES
  tz,            \* time zone of the server process (TZ of the Node runtime)
  now,           \* the server clock: value of new Date()
  moods,         \* collection 'moods' of one user: sequence of documents
  userStats,     \* collection 'user_stats': << >> or <<document>> of the user
  moodAnalysis,  \* collection 'mood_analysis': saved analyses, oldest first
  response,      \* body of the last HTTP response sent
  client,        \* the module-level MongoClient of the user-stats route
  requests,      \* GET /api/user-stats requests in flight: position and locals
  fetches        \* fetch calls made by the handler that answered last

vars ==
  <<tz, now, moods, userStats, moodAnalysis, response, client, requests,
    fetches>>

----------------------------------------------------------------------------
(* Bounds of the model *)

\* entries of the calendar inputs
MaxEntries == 2
\* days before the daylight-saving switch on which calendar entries may lie
DaysBack == 2
\* longest run of equal moods in a block of the pattern inputs
MaxRun == 7
\* analyses the mood_analysis collection may hold
MaxSaved == 1
\* analyses of one user's data asked for in a row
MaxRepeats == 2
\* GET /api/user-stats requests the server handles at the same time
MaxRequests == 2

MoodStates == {"Happy", "Sad", "Stressed"}

----------------------------------------------------------------------------
(* Dates *)

Zones == {"UTC", "Asia/Karachi", "America/Bogota", "Europe/London"}

\* standard offset of local time from UTC, in hours
BaseOffset(z) ==
  CASE z = "Asia/Karachi" -> 5
    [] z = "America/Bogota" -> 0 - 5
    [] OTHER -> 0

\* the zone switches to summer time (one hour ahead) at DstStart
HasDst(z) == z = "Europe/London"

\* Sunday of the seventh week, 01:00 UTC: start of summer time
DstStart == 42 * 24 + 1
DstDay == DstStart \div 24

Offset(z, t) == BaseOffset(z) + (IF HasDst(z) /\ t >= DstStart THEN 1 ELSE 0)

\* local calendar day and local hour of an instant
LocalDate(z, t) == (t + Offset(z, t)) \div 24
LocalHour(z, t) == (t + Offset(z, t)) % 24

\* the instant that reads day d, hour h on the local clock
MakeLocal(z, d, h) ==
  CHOOSE t \in {d * 24 + h - o : o \in {BaseOffset(z), BaseOffset(z) + 1}} :
    LocalDate(z, t) = d /\ LocalHour(z, t) = h

\* date.setHours(0, 0, 0, 0)
setHoursZero(z, t) == MakeLocal(z, LocalDate(z, t), 0)

\* date.setDate(date.getDate() + k)
addDays(z, t, k) == MakeLocal(z, LocalDate(z, t) + k, LocalHour(z, t))

\* date.getDay(): 0 is Sunday
getDay(z, t) == LocalDate(z, t) % 7

\* date.toISOString().split('T')[0]: the UTC calendar day
isoDate(t) == t \div 24

Null == << >>
Some(x) == <<x>>

\* the requests a server process may be handling at once
Requests == 1..MaxRequests

\* a request that has not arrived yet
Idle ==
  [pc |-> "idle", clock |-> 0, longestStreak |-> 0, thisWeekEntries |-> 0,
   totalEntries |-> 0, streak |-> [current |-> 0, startDate |-> Null],
   status |-> 200]

\* the route module was just loaded: client constructed, no request arrived
NoRequests ==
  /\ client = "new"
  /\ requests = [r \in Requests |-> Idle]
  /\ fetches = << >>

----------------------------------------------------------------------------
(* Sequences *)

Range(s) == {s[i] : i \in 1..Len(s)}

RECURSIVE InsertAsc(_, _)
\* x put into the ascending sequence s behind every element not later than it
InsertAsc(s, x) ==
  IF s = << >> THEN <<x>>
  ELSE IF x.timestamp < Head(s).timestamp THEN <<x>> \o s
  ELSE <<Head(s)>> \o InsertAsc(Tail(s), x)

RECURSIVE SortAsc(_)
\* stable sort by timestamp, oldest first: sort({ timestamp: 1 })
SortAsc(s) ==
  IF s = << >> THEN << >>
  ELSE InsertAsc(SortAsc(SubSeq(s, 1, Len(s) - 1)), s[Len(s)])

RECURSIVE InsertDesc(_, _)
InsertDesc(s, x) ==
  IF s = << >> THEN <<x>>
  ELSE IF x.timestamp > Head(s).timestamp THEN <<x>> \o s
  ELSE <<Head(s)>> \o InsertDesc(Tail(s), x)

RECURSIVE SortDesc(_)
\* stable sort by timestamp, newest first: sort({ timestamp: -1 })
SortDesc(s) ==
  IF s = << >> THEN << >>
  ELSE InsertDesc(SortDesc(SubSeq(s, 1, Len(s) - 1)), s[Len(s)])

\* one element more than asked for
LimitPlusOne(s, n) == SubSeq(s, 1, IF Len(s) < n + 1 THEN Len(s) ELSE n + 1)

\* cursor.limit(n)
Limit(s, n) == SubSeq(s, 1, IF Len(s) < n THEN Len(s) ELSE n)

\* array.slice(-n)
SliceLast(s, n) == SubSeq(s, IF Len(s) > n THEN Len(s) - n + 1 ELSE 1, Len(s))

\* array.slice(-m, -n) with m > n > 0
SliceBetween(s, m, n) ==
  IF Len(s) <= n THEN << >>
  ELSE SubSeq(s, IF Len(s) > m THEN Len(s) - m + 1 ELSE 1, Len(s) - n)

RECURSIVE Sum(_)
Sum(s) == IF s = << >> THEN 0 ELSE Head(s) + Sum(Tail(s))

\* number of documents of s whose moodState is m
CountMood(s, m) == Cardinality({i \in 1..Len(s) : s[i].moodState = m})

----------------------------------------------------------------------------
(* GET /api/user-stats *)

RECURSIVE streakWalk(_, _, _, _, _)
\* the while (true) loop: count the days of dateMap met walking back a day at
\* a time from currentDate
streakWalk(z, dateMap, currentDate, streak, streakStartDate) ==
  IF isoDate(currentDate) \in dateMap
  THEN streakWalk(z, dateMap, addDays(z, currentDate, 0 - 1), streak + 1,
                  currentDate)
  ELSE [current |-> streak, startDate |-> Some(streakStartDate)]

calculateStreak(z, clock, collection) ==
  LET entries == SortDesc(collection)
      today == setHoursZero(z, clock)
      yesterday == addDays(z, today, 0 - 1)
      dateMap == {isoDate(setHoursZero(z, entries[i].timestamp)) :
                    i \in 1..Len(entries)}
      todayStr == isoDate(today)
      yesterdayStr == isoDate(yesterday)
  IN  IF Len(entries) = 0 THEN [current |-> 0, startDate |-> Null]
      ELSE IF todayStr \in dateMap
        THEN streakWalk(z, dateMap, today, 0, today)
      ELSE IF yesterdayStr \in dateMap
        THEN streakWalk(z, dateMap, yesterday, 0, yesterday)
      ELSE [current |-> 0, startDate |-> Null]

\* countDocuments({ timestamp: { $gte: startOfWeek, $lt: endOfWeek } })
countThisWeek(z, clock, collection) ==
  LET startOfWeek == setHoursZero(z, addDays(z, clock, 0 - getDay(z, clock)))
      endOfWeek == addDays(z, startOfWeek, 7)
  IN  Cardinality({i \in 1..Len(collection) :
                     /\ collection[i].timestamp >= startOfWeek
                     /\ collection[i].timestamp < endOfWeek})

Max(a, b) == IF a > b THEN a ELSE b

\* Math.round((thisWeekEntries / 7) * 100)
weekPercentage(thisWeekEntries) == (200 * thisWeekEntries + 7) \div 14

\* the stored longestStreak, 0 when no document was found
storedLongest(stats) == IF stats = Null THEN 0 ELSE stats[1].longestStreak

GetUserStats ==
  \E thisWeekEntries \in {countThisWeek(tz, now, moods)},
     streak \in {calculateStreak(tz, now, moods)} :
    LET totalEntries == Len(moods)
        longestStreak == Max(streak.current, storedLongest(userStats))
    IN  /\ userStats' = Some([currentStreak |-> streak.current,
                              longestStreak |-> longestStreak,
                              totalMoodEntries |-> totalEntries,
                              thisWeekEntries |-> thisWeekEntries,
                              updatedAt |-> now])
        /\ response' = [op |-> "user-stats",
                        status |-> 200,
                        currentStreak |-> streak.current,
                        longestStreak |-> longestStreak,
                        totalMoodEntries |-> totalEntries,
                        thisWeekEntries |-> thisWeekEntries,
                        weekPercentage |-> weekPercentage(thisWeekEntries),
                        streakStartDate |-> streak.startDate]
        /\ fetches' = << >>
        /\ UNCHANGED <<tz, now, moods, moodAnalysis, client, requests>>

----------------------------------------------------------------------------
(* POST /api/n8n/trigger *)

\* .limit(30) of the query for the recent moods
FetchLimit == 30
\* days looked at by the loop of calculateConsecutiveSadDays
ScanDays == 30
\* days of history asked of getMoodHistory
HistoryDays == 7

\* a scale on which Happy lies far from the other two
moodValueWide(m) ==
  CASE m = "Happy" -> 9
    [] m = "Stressed" -> 2
    [] m = "Sad" -> 1
    [] OTHER -> 2

\* moodValues[m.moodState] || 2
moodValue(m) ==
  CASE m = "Happy" -> 3
    [] m = "Stressed" -> 2
    [] m = "Sad" -> 1
    [] OTHER -> 2

\* the entries of s whose UTC day is dateKey: moodsByDate.get(dateKey) || []
dayBucket(s, dateKey) == SelectSeq(s, LAMBDA m : isoDate(m.timestamp) = dateKey)

\* a day counts as sad already when exactly half of its entries are Sad
isDaySadAtHalf(dayMoods) == 2 * CountMood(dayMoods, "Sad") >= Len(dayMoods)

\* sadMoods.length > dayMoods.length / 2
isDaySad(dayMoods) == 2 * CountMood(dayMoods, "Sad") > Len(dayMoods)

RECURSIVE sadScan(_, _, _, _, _)
\* the for loop over i = 0 .. 29, from the i-th day before today
sadScan(z, recentMoods, today, i, consecutiveDays) ==
  IF i >= ScanDays THEN consecutiveDays
  ELSE LET checkDate == addDays(z, today, 0 - i)
           dayMoods == dayBucket(recentMoods, isoDate(checkDate))
       IN  IF Len(dayMoods) = 0
             THEN sadScan(z, recentMoods, today, i + 1, consecutiveDays)
           ELSE IF isDaySad(dayMoods)
             THEN sadScan(z, recentMoods, today, i + 1, consecutiveDays + 1)
           ELSE consecutiveDays

calculateConsecutiveSadDays(z, clock, collection) ==
  LET recentMoods == Limit(SortDesc(collection), FetchLimit)
      today == setHoursZero(z, clock)
  IN  IF Len(recentMoods) = 0 THEN 0
      ELSE sadScan(z, recentMoods, today, 0, 0)

\* the entries since `days` days before the clock, newest first
getMoodHistory(z, clock, collection, days) ==
  LET startDate == addDays(z, clock, 0 - days)
  IN  SortDesc(SelectSeq(collection, LAMBDA m : m.timestamp >= startDate))

moodValues(s) == [i \in 1..Len(s) |-> moodValue(s[i].moodState)]

\* n * sum of squares - square of the sum: n * n times the variance
varianceTimesN2(values) ==
  Len(values) * Sum([i \in 1..Len(values) |-> values[i] * values[i]])
    - Sum(values) * Sum(values)

RECURSIVE roundedSqrtRatio(_, _, _, _)
\* Math.round(Math.sqrt(p) / n * 100): the largest r in lo..hi with
\* r - 1/2 <= 100 * sqrt(p) / n
roundedSqrtRatio(p, n, lo, hi) ==
  IF lo >= hi THEN lo
  ELSE LET mid == (lo + hi + 1) \div 2
       IN  IF (2 * mid - 1) * (2 * mid - 1) * n * n <= 40000 * p
           THEN roundedSqrtRatio(p, n, mid, hi)
           ELSE roundedSqrtRatio(p, n, lo, mid - 1)

\* in hundredths: Math.round(Math.sqrt(variance) * 100) / 100
calculateMoodVariability(moodHistory) ==
  IF Len(moodHistory) < 2 THEN 0
  ELSE roundedSqrtRatio(varianceTimesN2(moodValues(moodHistory)),
                        Len(moodHistory), 0, 100)

analyzeMoodTrend(moodHistory) ==
  IF Len(moodHistory) < 3 THEN "insufficient_data"
  ELSE LET recentSum == Sum(moodValues(SubSeq(moodHistory, 1, 3)))
           olderSum == Sum(moodValues(SliceLast(moodHistory, 3)))
       IN  \* averages are sums / 3; the comparison is scaled by 30
           IF 10 * recentSum > 10 * olderSum + 9 THEN "improving"
           ELSE IF 10 * recentSum < 10 * olderSum - 9 THEN "declining"
           ELSE "stable"

\* moodHistory.find(m => m.moodState === 'Happy')?.timestamp || null
lastHappyMood(moodHistory) ==
  LET happy == SelectSeq(moodHistory, LAMBDA m : m.moodState = "Happy")
  IN  IF happy = << >> THEN Null ELSE Some(happy[1].timestamp)

\* request bodies: complete, without userId, with a moodState outside the enum
TriggerBodies ==
  {[userId |-> "u1", moodText |-> "text", moodState |-> "Sad"],
   [userId |-> "", moodText |-> "text", moodState |-> "Sad"],
   [userId |-> "u1", moodText |-> "text", moodState |-> "Angry"]}

\* what one fetch of the webhook may do: answer ok, answer ok with a body
\* that is no JSON, answer with an error status, throw, or be aborted by
\* the timer
AttemptOutcomes == {"ok", "bad_body", "not_ok", "throws", "timeout"}

\* the third argument of the call of fetchWithRetry
WebhookRetries == 3

\* the attempts fetchWithRetry makes when attempt i of the fetch does
\* script[i]: the loop ends with the first attempt that does not throw
RECURSIVE attemptsFrom(_, _, _)
attemptsFrom(script, i, retries) ==
  IF i > retries THEN << >>
  ELSE IF script[i] \in {"throws", "timeout"}
    THEN <<script[i]>> \o attemptsFrom(script, i + 1, retries)
  ELSE <<script[i]>>

\* a loop that goes on after a response that is not ok
loopEndedOnOk(attempts, retries) ==
  \/ Len(attempts) >= retries
  \/ attempts # << >> /\ attempts[Len(attempts)] \in {"ok", "bad_body"}

\* the for loop is over: i < retries fails, or the last fetch returned
loopEnded(attempts, retries) ==
  \/ Len(attempts) >= retries
  \/ attempts # << >> /\ attempts[Len(attempts)] \notin {"throws", "timeout"}

\* the attempts made, and the response returned or the error thrown
fetchWithRetry(script, retries) ==
  LET attempts == attemptsFrom(script, 1, retries)
  IN  [attempts |-> attempts,
       result |->
         IF attempts # << >> /\ attempts[Len(attempts)] \notin {"throws", "timeout"}
         THEN attempts[Len(attempts)]
         ELSE "All retry attempts failed"]

\* what fetchWithRetry ends with: a response that is ok, one that is not, or
\* the error thrown after the last attempt
WebhookOutcomes == {"ok", "not_ok", "throws"}

\* a webhook that behaves alike on every attempt
Scripted(outcome) == [i \in 1..WebhookRetries |-> outcome]

\* analytics of the success response: riskFactors of the payload included
triggerAnalytics(z, clock, collection) ==
  LET withHistory(consecutiveSadDays, moodHistory) ==
        [consecutiveSadDays |-> consecutiveSadDays,
         moodTrend |-> analyzeMoodTrend(moodHistory),
         riskFactors |->
           [consecutiveSadDays |-> consecutiveSadDays,
            hasStressPattern |-> CountMood(moodHistory, "Stressed") >= 3,
            moodVariability |-> calculateMoodVariability(moodHistory),
            lastHappyMood |-> lastHappyMood(moodHistory)]]
  IN  CHOOSE a \in
        {withHistory(c, h) :
           c \in {calculateConsecutiveSadDays(z, clock, collection)},
           h \in {getMoodHistory(z, clock, collection, HistoryDays)}} : TRUE

\* the answer to a valid request, by what fetchWithRetry ended with
webhookAnswer(result, z, clock, collection) ==
  IF result = "All retry attempts failed"
    THEN [op |-> "n8n-trigger", status |-> 200, success |-> TRUE,
          n8nStatus |-> "error", fallbackExecuted |-> TRUE]
  ELSE IF result = "not_ok"
    THEN [op |-> "n8n-trigger", status |-> 200, success |-> TRUE,
          n8nStatus |-> "failed", fallbackExecuted |-> TRUE]
  ELSE [op |-> "n8n-trigger", status |-> 200, success |-> TRUE,
        n8nStatus |-> "success",
        analytics |-> triggerAnalytics(z, clock, collection),
        n8nResponse |->
          IF result = "bad_body"
          THEN [status |-> "parse_error",
                message |-> "Workflow executed but response malformed"]
          ELSE [status |-> "workflow_executed",
                message |-> "No response body"]]

\* a body that is no JSON text, or the JSON null, makes request.json() or
\* the destructuring of the body throw; a field an object lacks reads as ""
isObject(body) == "userId" \in DOMAIN body

N8nTrigger(body, script) ==
  LET n8nResponse == fetchWithRetry(script, WebhookRetries)
  IN
  /\ response' =
       IF ~isObject(body)
         THEN [op |-> "n8n-trigger", status |-> 200, success |-> TRUE,
               n8nStatus |-> "error", fallbackExecuted |-> TRUE]
       ELSE IF body.userId = "" \/ body.moodText = "" \/ body.moodState = ""
         THEN [op |-> "n8n-trigger", status |-> 400,
               error |-> "Missing required fields: userId, moodText, moodState"]
       ELSE IF body.moodState \notin MoodStates
         THEN [op |-> "n8n-trigger", status |-> 400,
               error |-> "Invalid moodState. Must be: Happy, Sad, or Stressed"]
       ELSE webhookAnswer(n8nResponse.result, tz, now, moods)
  /\ fetches' =
       IF \/ ~isObject(body)
          \/ body.userId = "" \/ body.moodText = "" \/ body.moodState = ""
          \/ body.moodState \notin MoodStates
       THEN << >>
       ELSE [i \in 1..Len(n8nResponse.attempts) |->
               [url |-> "webhook", outcome |-> n8nResponse.attempts[i]]]
  /\ UNCHANGED <<tz, now, moods, userStats, moodAnalysis, client, requests>>

----------------------------------------------------------------------------
(* POST /api/analytics/mood-pattern *)

\* timeRange = 30 when the request names none
DefaultTimeRange == 30

\* the keys of an object in insertion order: the distinct values of f over 1..n
\* in order of first appearance
RECURSIVE firstSeen(_, _)
firstSeen(f, n) ==
  IF n = 0 THEN << >>
  ELSE LET before == firstSeen(f, n - 1)
       IN  IF f[n] \in Range(before) THEN before ELSE Append(before, f[n])

moodKeys(s) == firstSeen([i \in 1..Len(s) |-> s[i].moodState], Len(s))
dateKeys(s) == firstSeen([i \in 1..Len(s) |-> isoDate(s[i].timestamp)], Len(s))

getMostCommonTimeOfDay(z, s) ==
  LET slotOf(m) ==
        LET hour == LocalHour(z, m.timestamp)
        IN  IF hour >= 6 /\ hour < 12 THEN "morning"
            ELSE IF hour >= 12 /\ hour < 18 THEN "afternoon"
            ELSE IF hour >= 18 /\ hour < 22 THEN "evening"
            ELSE "night"
      timeSlots == [k \in {"morning", "afternoon", "evening", "night"} |->
                      Cardinality({i \in 1..Len(s) : slotOf(s[i]) = k})]
      \* reduce keeps max only while it is strictly greater than current
      pick(max, current) == IF timeSlots[max] > timeSlots[current] THEN max
                            ELSE current
  IN  pick(pick(pick("morning", "afternoon"), "evening"), "night")

\* m.sentiment || 'neutral'
sentimentOf(m) ==
  IF "sentiment" \in DOMAIN m THEN m.sentiment ELSE "neutral"

getAverageSentiment(s) ==
  LET positive == Cardinality({i \in 1..Len(s) : sentimentOf(s[i]) = "positive"})
      negative == Cardinality({i \in 1..Len(s) : sentimentOf(s[i]) = "negative"})
  IN  IF Len(s) = 0 THEN "neutral"
      ELSE IF positive > negative THEN "positive"
      ELSE IF negative > positive THEN "negative"
      ELSE "neutral"

RECURSIVE Flatten(_)
Flatten(ss) == IF ss = << >> THEN << >> ELSE Head(ss) \o Flatten(Tail(ss))

\* the keys Object.entries finds on an object filled by obj[k] = ...: an
\* assignment to '__proto__' goes to the setter of Object.prototype, which
\* drops a value that is no object, so that key never becomes a property
ownKeys(keys) == SelectSeq(keys, LAMBDA k : k # "__proto__")

groupMoodsByDate(z, moodData) ==
  LET dates == dateKeys(moodData)
      patternsOf(date) ==
        LET group == dayBucket(moodData, date)
            keys == ownKeys(moodKeys(group))
        IN  [k \in 1..Len(keys) |->
               LET same == SelectSeq(group, LAMBDA m : m.moodState = keys[k])
               IN  [date |-> date,
                    mood |-> keys[k],
                    frequency |-> Len(same),
                    timeOfDay |-> getMostCommonTimeOfDay(z, same),
                    sentiment |-> getAverageSentiment(same)]]
  IN  Flatten([d \in 1..Len(dates) |-> patternsOf(dates[d])])

RECURSIVE sadRun(_, _, _, _)
\* the for loop of calculateMaxConsecutiveSad from position i on
sadRun(sortedData, i, currentConsecutive, maxConsecutive) ==
  IF i > Len(sortedData) THEN maxConsecutive
  ELSE IF sortedData[i].moodState = "Sad"
    THEN sadRun(sortedData, i + 1, currentConsecutive + 1,
                Max(maxConsecutive, currentConsecutive + 1))
  ELSE sadRun(sortedData, i + 1, 0, maxConsecutive)

calculateMaxConsecutiveSad(moodData) == sadRun(SortAsc(moodData), 1, 0, 0)

\* Object.entries(moodCounts).sort(([,a], [,b]) => b - a)[0][0]: the first
\* key, in insertion order, of the largest count
dominantMoodOf(moodData) ==
  LET keys == moodKeys(moodData)
      best == CHOOSE k \in 1..Len(keys) :
                /\ \A j \in 1..Len(keys) :
                     CountMood(moodData, keys[j]) <= CountMood(moodData, keys[k])
                /\ \A j \in 1..(k - 1) :
                     CountMood(moodData, keys[j]) < CountMood(moodData, keys[k])
  IN  keys[best]

\* a * sqrt(p) <= b for a > 0, b >= 0, p >= 0, without leaving 32 bits:
\* with b = q * a + r the test a * a * p <= b * b is taken apart
sqrtAtMost(a, p, b) ==
  LET q == b \div a
      r == b % a
      e == p - q * q
      f == e * a - 2 * q * r
  IN  IF e <= 0 \/ f <= 0 THEN TRUE
      ELSE IF f >= a THEN FALSE
      ELSE f * a <= r * r

RECURSIVE roundedStability(_, _, _, _)
\* Math.round(1 / (Math.sqrt(p) / n + 0.1) * 100): the largest r in lo..hi
\* with r - 1/2 <= 1000 * n / (10 * sqrt(p) + n), which is
\* 10 * (2 * r - 1) * sqrt(p) <= (2001 - 2 * r) * n
roundedStability(p, n, lo, hi) ==
  IF lo >= hi THEN lo
  ELSE LET mid == (lo + hi + 1) \div 2
       IN  IF sqrtAtMost(10 * (2 * mid - 1), p, (2001 - 2 * mid) * n)
           THEN roundedStability(p, n, mid, hi)
           ELSE roundedStability(p, n, lo, mid - 1)

\* in hundredths: Math.round((1 / (Math.sqrt(variance) + 0.1)) * 100) / 100
moodStabilityOf(moodData) ==
  roundedStability(varianceTimesN2(moodValues(moodData)), Len(moodData),
                   0, 1000)

\* high already at a sad fraction of exactly 0.7
riskLevelAtSeventy(consecutiveSad, sadCount, stressedCount, n) ==
  IF consecutiveSad >= 7 \/ 10 * sadCount >= 7 * n THEN "high"
  ELSE IF \/ consecutiveSad >= 3
          \/ 10 * sadCount > 4 * n
          \/ 10 * stressedCount > 6 * n THEN "medium"
  ELSE "low"

\* medium for a run of exactly three only
riskLevelExactlyThree(consecutiveSad, sadCount, stressedCount, n) ==
  IF consecutiveSad >= 7 \/ 10 * sadCount > 7 * n THEN "high"
  ELSE IF \/ consecutiveSad = 3
          \/ 10 * sadCount > 4 * n
          \/ 10 * stressedCount > 6 * n THEN "medium"
  ELSE "low"

\* the if / else if of the risk level; percentages are counts over n
riskLevelOf(consecutiveSad, sadCount, stressedCount, n) ==
  IF consecutiveSad >= 7 \/ 10 * sadCount > 7 * n THEN "high"
  ELSE IF \/ consecutiveSad >= 3
          \/ 10 * sadCount > 4 * n
          \/ 10 * stressedCount > 6 * n THEN "medium"
  ELSE "low"

\* the two means compared across a threshold of 0.2
trendDirectionAtFifth(moodData) ==
  LET recentData == SliceLast(moodData, 7)
      olderData == SliceBetween(moodData, 14, 7)
      recentSum == Sum(moodValues(recentData))
      recentLen == Len(recentData)
      olderSum == IF Len(olderData) > 0 THEN Sum(moodValues(olderData))
                  ELSE recentSum
      olderLen == IF Len(olderData) > 0 THEN Len(olderData) ELSE recentLen
  IN  IF 10 * recentSum * olderLen
           > 10 * olderSum * recentLen + 2 * recentLen * olderLen
        THEN "improving"
      ELSE IF 10 * recentSum * olderLen
                < 10 * olderSum * recentLen - 2 * recentLen * olderLen
        THEN "declining"
      ELSE "stable"

\* the recent mean compared with 2 when there is no older window
trendDirectionFromNeutral(moodData) ==
  LET recentData == SliceLast(moodData, 7)
      olderData == SliceBetween(moodData, 14, 7)
      recentSum == Sum(moodValues(recentData))
      recentLen == Len(recentData)
      olderSum == IF Len(olderData) > 0 THEN Sum(moodValues(olderData)) ELSE 2
      olderLen == IF Len(olderData) > 0 THEN Len(olderData) ELSE 1
  IN  IF 10 * recentSum * olderLen
           > 10 * olderSum * recentLen + 3 * recentLen * olderLen
        THEN "improving"
      ELSE IF 10 * recentSum * olderLen
                < 10 * olderSum * recentLen - 3 * recentLen * olderLen
        THEN "declining"
      ELSE "stable"

\* recentAvg and olderAvg compared across the 0.3 threshold
trendDirectionOf(moodData) ==
  LET recentData == SliceLast(moodData, 7)
      olderData == SliceBetween(moodData, 14, 7)
      recentSum == Sum(moodValues(recentData))
      recentLen == Len(recentData)
      \* olderAvg is recentAvg when olderData is empty
      olderSum == IF Len(olderData) > 0 THEN Sum(moodValues(olderData))
                  ELSE recentSum
      olderLen == IF Len(olderData) > 0 THEN Len(olderData) ELSE recentLen
  IN  \* recentSum / recentLen against olderSum / olderLen +- 3 / 10
      IF 10 * recentSum * olderLen
           > 10 * olderSum * recentLen + 3 * recentLen * olderLen
        THEN "improving"
      ELSE IF 10 * recentSum * olderLen
                < 10 * olderSum * recentLen - 3 * recentLen * olderLen
        THEN "declining"
      ELSE "stable"

\* the limited-data flag up to and including seven entries
criticalPatternsUpToSeven(consecutiveSad, stressedCount, moodStability, n) ==
  (IF consecutiveSad >= 5
     THEN <<ToString(consecutiveSad) \o " consecutive sad days detected">>
     ELSE << >>)
  \o (IF 10 * stressedCount > 5 * n
        THEN <<"High stress frequency detected">> ELSE << >>)
  \o (IF moodStability < 30
        THEN <<"High mood volatility detected">> ELSE << >>)
  \o (IF n <= 7
        THEN <<"Limited data available for comprehensive analysis">>
        ELSE << >>)

\* the four pushes onto criticalPatterns
criticalPatternsOf(consecutiveSad, stressedCount, moodStability, n) ==
  (IF consecutiveSad >= 5
     THEN <<ToString(consecutiveSad) \o " consecutive sad days detected">>
     ELSE << >>)
  \o (IF 10 * stressedCount > 5 * n
        THEN <<"High stress frequency detected">> ELSE << >>)
  \o (IF moodStability < 30
        THEN <<"High mood volatility detected">> ELSE << >>)
  \o (IF n < 7
        THEN <<"Limited data available for comprehensive analysis">>
        ELSE << >>)

\* the answer for no data without its critical pattern
generateInsightsUnflagged(moodData) ==
  [dominantMood |-> "No data",
   moodStability |-> 0,
   riskLevel |-> "low",
   trendDirection |-> "stable",
   criticalPatterns |-> << >>]

generateInsights(moodData) ==
  IF Len(moodData) = 0
  THEN [dominantMood |-> "No data",
        moodStability |-> 0,
        riskLevel |-> "low",
        trendDirection |-> "stable",
        criticalPatterns |-> <<"Insufficient data for analysis">>]
  ELSE LET n == Len(moodData)
           sadCount == CountMood(moodData, "Sad")
           stressedCount == CountMood(moodData, "Stressed")
           insightsOf(moodStability, consecutiveSad) ==
             [dominantMood |-> dominantMoodOf(moodData),
              moodStability |-> moodStability,
              riskLevel |->
                riskLevelOf(consecutiveSad, sadCount, stressedCount, n),
              trendDirection |-> trendDirectionOf(moodData),
              criticalPatterns |->
                criticalPatternsOf(consecutiveSad, stressedCount,
                                   moodStability, n)]
       IN  CHOOSE r \in
             {insightsOf(st, c) : st \in {moodStabilityOf(moodData)},
                                  c \in {calculateMaxConsecutiveSad(moodData)}} :
             TRUE

generatePatternRecommendations(insights) ==
  LET recommendations ==
        (IF insights.riskLevel = "high"
           THEN <<"Consider reaching out to a mental health professional immediately",
                  "Contact a crisis helpline if you need immediate support",
                  "Inform a trusted friend or family member about how you&apos;re feeling">>
         ELSE IF insights.riskLevel = "medium"
           THEN <<"Schedule a check-in with a counselor or therapist",
                  "Increase self-care activities and stress management techniques",
                  "Consider joining a support group or mental health community">>
         ELSE << >>)
        \o (IF insights.trendDirection = "declining"
              THEN <<"Focus on identifying and addressing recent stressors",
                     "Implement daily mindfulness or meditation practices",
                     "Ensure you&apos;re maintaining healthy sleep and eating habits">>
            ELSE IF insights.trendDirection = "improving"
              THEN <<"Continue with current coping strategies that are working",
                     "Document positive activities to repeat them",
                     "Consider gradually increasing social activities">>
            ELSE << >>)
        \o (IF insights.dominantMood = "Stressed"
              THEN <<"Practice stress-reduction techniques like deep breathing",
                     "Evaluate and potentially reduce sources of stress in your environment",
                     "Consider time management and organizational strategies">>
            ELSE << >>)
        \o (IF insights.moodStability < 50
              THEN <<"Work on establishing consistent daily routines",
                     "Track potential mood triggers in your environment",
                     "Consider mood stabilization techniques with a professional">>
            ELSE << >>)
  IN  Limit(recommendations, 6)

\* the documents since timeRange days before the clock, oldest first
findMoodData(z, clock, collection, timeRange) ==
  LET startDate == addDays(z, clock, 0 - timeRange)
  IN  SortAsc(SelectSeq(collection, LAMBDA m : m.timestamp >= startDate))

\* an analysis that leaves the patterns out once an analysis has been saved
analyzeMoodPatternsOnce(z, clock, collection, timeRange) ==
  LET typedMoodData == findMoodData(z, clock, collection, timeRange)
  IN  [timeRange |-> timeRange,
       patterns |-> IF moodAnalysis = << >>
                    THEN groupMoodsByDate(z, typedMoodData) ELSE << >>,
       insights |-> generateInsights(typedMoodData),
       generatedAt |-> clock]

analyzeMoodPatterns(z, clock, collection, timeRange) ==
  LET analysisOf(typedMoodData) ==
        [timeRange |-> timeRange,
         patterns |-> groupMoodsByDate(z, typedMoodData),
         insights |-> generateInsights(typedMoodData),
         generatedAt |-> clock]
  IN  CHOOSE a \in
        {analysisOf(d) : d \in {findMoodData(z, clock, collection, timeRange)}} :
        TRUE

\* time ranges a request may name
TimeRanges == {7, DefaultTimeRange}

PostMoodPattern(timeRange, includeRecommendations) ==
  /\ \E analysis \in {analyzeMoodPatterns(tz, now, moods, timeRange)} :
       \E answered \in
           {IF includeRecommendations
            THEN [timeRange |-> analysis.timeRange,
                  patterns |-> analysis.patterns,
                  insights |-> analysis.insights,
                  generatedAt |-> analysis.generatedAt,
                  recommendations |->
                    generatePatternRecommendations(analysis.insights)]
            ELSE analysis} :
         /\ moodAnalysis' = Append(moodAnalysis, answered)
         /\ response' = [op |-> "mood-pattern", status |-> 200,
                         success |-> TRUE, analysis |-> answered]
  /\ fetches' = << >>
  /\ UNCHANGED <<tz, now, moods, userStats, client, requests>>

----------------------------------------------------------------------------
(* Calendar inputs: a few entries around the start of summer time *)

\* hours of the UTC day at which an entry may be logged
EntryHours == {2, 23}

EntryInstants ==
  {d * 24 + h : d \in (DstDay - DaysBack)..(DstDay + 1), h \in EntryHours}

\* the server is asked at noon UTC of the switch day or of the day after
Clocks == {DstDay * 24 + 12, (DstDay + 1) * 24 + 12}

\* ascending sequences of at most n documents with distinct timestamps
RECURSIVE Collections(_, _)
Collections(instants, n) ==
  IF n = 0 THEN {<< >>}
  ELSE LET shorter == Collections(instants, n - 1)
       IN  shorter \cup
           {Append(c, [timestamp |-> t, moodState |-> m]) :
              c \in {x \in shorter : Len(x) = n - 1},
              t \in instants, m \in MoodStates}

IsAscending(c) == \A i \in 1..(Len(c) - 1) : c[i].timestamp < c[i + 1].timestamp

InitCalendar ==
  /\ tz \in Zones
  /\ now \in Clocks
  /\ moods \in {c \in Collections(EntryInstants, MaxEntries) : IsAscending(c)}
  /\ userStats = Null
  /\ moodAnalysis = << >>
  /\ response = [op |-> "none"]
  /\ NoRequests

NextCalendar ==
  \/ GetUserStats
  \/ \E body \in TriggerBodies, outcome \in WebhookOutcomes :
       N8nTrigger(body, Scripted(outcome))

SpecCalendar == InitCalendar /\ [][NextCalendar]_vars

----------------------------------------------------------------------------
(* Pattern inputs: runs of equal moods, logged at a fixed pace *)

\* hours between two entries: four a day, or one a day
Strides == {6, 24}

\* the clock of the pattern inputs: 23:00 UTC of the day before summer time
PatternClock == (DstDay - 1) * 24 + 23

\* a run of count entries of one mood
Runs == {[mood |-> m, count |-> k] : m \in MoodStates, k \in 1..MaxRun}

\* at most three runs, neighbours of different moods
RunLists ==
  {<< >>} \cup {<<a>> : a \in Runs}
    \cup {r \in Runs \X Runs : r[1].mood # r[2].mood}
    \cup {r \in Runs \X Runs \X Runs :
            r[1].mood # r[2].mood /\ r[2].mood # r[3].mood}

RECURSIVE Unroll(_)
\* the moods of the runs, one after the other
Unroll(runs) ==
  IF runs = << >> THEN << >>
  ELSE [i \in 1..Head(runs).count |-> Head(runs).mood] \o Unroll(Tail(runs))

\* the documents of the moods ms, oldest first, the last one an hour before
\* the clock and each `stride` hours after the one before
Paced(ms, clock, stride) ==
  [i \in 1..Len(ms) |->
     [timestamp |-> clock - 1 - (Len(ms) - i) * stride, moodState |-> ms[i]]]

\* the paces tried for a list of runs: the daily pace only for lists of at
\* most two runs
StridesOf(runs) == {stride \in Strides : stride = 24 => Len(runs) <= 2}

InitPattern ==
  /\ tz = "UTC"
  /\ now = PatternClock
  /\ \E runs \in RunLists :
       \E stride \in StridesOf(runs) :
         moods = Paced(Unroll(runs), now, stride)
  /\ userStats = Null
  /\ moodAnalysis = << >>
  /\ response = [op |-> "none"]
  /\ NoRequests

NextPattern ==
  \/ /\ Len(moodAnalysis) < MaxSaved
     /\ \E timeRange \in TimeRanges : PostMoodPattern(timeRange, TRUE)
  \/ N8nTrigger(CHOOSE b \in TriggerBodies : b.userId # "" /\ b.moodState \in MoodStates,
                Scripted("ok"))

SpecPattern == InitPattern /\ [][NextPattern]_vars

----------------------------------------------------------------------------
(* Streak calculator: the calendar reading of the entries *)

\* the local calendar days that have at least one entry
EntryDays == {LocalDate(tz, moods[i].timestamp) : i \in 1..Len(moods)}

Today == LocalDate(tz, now)

HasAnchor == Today \in EntryDays \/ (Today - 1) \in EntryDays

\* today if today has an entry, else yesterday
AnchorDay == IF Today \in EntryDays THEN Today ELSE Today - 1

\* number of consecutive days with an entry that end at day d
RunEndingAt(d) ==
  CHOOSE k \in 0..Cardinality(EntryDays) :
    /\ \A j \in 0..(k - 1) : (d - j) \in EntryDays
    /\ (d - k) \notin EntryDays

StatsAnswered == response.op = "user-stats"

\* C1: the current streak is the number of consecutive calendar dates with an
\* entry that end at the anchor (today, else yesterday), and startDate is the
\* earliest date of that run.
C1_StreakIsRunAtAnchor ==
  (StatsAnswered /\ HasAnchor) =>
    /\ response.currentStreak = RunEndingAt(AnchorDay)
    /\ response.streakStartDate =
         Some(MakeLocal(tz, AnchorDay - RunEndingAt(AnchorDay) + 1, 0))

\* C2: with no entry dated today or yesterday the streak is 0 and startDate
\* is null.
C2_StreakZero ==
  (StatsAnswered /\ ~HasAnchor) =>
    /\ response.currentStreak = 0
    /\ response.streakStartDate = Null

\* C3: the current streak is at most the number of distinct calendar dates
\* that have an entry.
C3_StreakAtMostDays ==
  StatsAnswered => response.currentStreak <= Cardinality(EntryDays)

----------------------------------------------------------------------------
(* Pattern analysis: the data a request analysed, read entry by entry *)

PatternAnswered == response.op = "mood-pattern"

\* the entries handed to generateInsights by the request just answered
Analysed == findMoodData(tz, now, moods, response.analysis.timeRange)

Insights == response.analysis.insights

SadIn(data) == Cardinality({i \in 1..Len(data) : data[i].moodState = "Sad"})
StressedIn(data) ==
  Cardinality({i \in 1..Len(data) : data[i].moodState = "Stressed"})

\* length of the longest stretch of neighbouring Sad entries
LongestSadRun(data) ==
  LET \* the positions that are not Sad, with both ends of the list
      stops == {i \in 1..Len(data) : data[i].moodState # "Sad"}
                 \cup {0, Len(data) + 1}
      \* the number of Sad entries between a stop and the next one
      gaps == {(CHOOSE q \in stops : q > p /\ \A r \in stops : r > p => q <= r)
                 - p - 1 : p \in stops \ {Len(data) + 1}}
  IN  CHOOSE k \in gaps : \A g \in gaps : g <= k

HighHolds(run, sad, n) == run >= 7 \/ 10 * sad > 7 * n

MediumHolds(run, sad, stressed, n) ==
  run >= 3 \/ 10 * sad > 4 * n \/ 10 * stressed > 6 * n

\* C4: on non-empty data riskLevel is high exactly when consecutiveSad >= 7 or
\* the sad fraction is above 0.7, medium exactly when it is not high and
\* consecutiveSad >= 3 or the sad fraction is above 0.4 or the stressed
\* fraction is above 0.6, and low otherwise.
C4_RiskClassifier ==
  PatternAnswered =>
    \A data \in {Analysed} :
      Len(data) > 0 =>
        \A run \in {LongestSadRun(data)}, sad \in {SadIn(data)},
           stressed \in {StressedIn(data)}, n \in {Len(data)} :
          /\ Insights.riskLevel = "high" <=> HighHolds(run, sad, n)
          /\ Insights.riskLevel = "medium" <=>
               (~HighHolds(run, sad, n) /\ MediumHolds(run, sad, stressed, n))
          /\ Insights.riskLevel = "low" <=>
               (~HighHolds(run, sad, n) /\ ~MediumHolds(run, sad, stressed, n))

\* a run of seven Sad entries makes the risk high although the sad fraction
\* alone would only make it medium
C4_Witness ==
  /\ PatternAnswered
  /\ Insights.riskLevel = "high"
  /\ \E data \in {Analysed} :
       /\ Len(data) > 0
       /\ LongestSadRun(data) >= 7
       /\ 10 * SadIn(data) <= 7 * Len(data)
       /\ 10 * SadIn(data) > 4 * Len(data)

Rank(level) ==
  CASE level = "low" -> 0
    [] level = "medium" -> 1
    [] level = "high" -> 2

\* C5: with the fractions of the analysed data held fixed, a larger
\* consecutive-sad count never gives a lower risk level than the one answered
\* and a smaller one never a higher; from 2 to 3 the level does not fall and
\* is at least medium.
C5_RiskMonotone ==
  PatternAnswered =>
    \A data \in {Analysed} :
      Len(data) > 0 =>
      \A run \in {LongestSadRun(data)}, sad \in {SadIn(data)},
         stressed \in {StressedIn(data)} :
        LET level(c) == Rank(riskLevelOf(c, sad, stressed, Len(data)))
        IN  /\ \A c \in 0..(Len(data) + 1) :
                 /\ c >= run => level(c) >= Rank(Insights.riskLevel)
                 /\ c <= run => level(c) <= Rank(Insights.riskLevel)
            /\ level(3) >= level(2)
            /\ level(3) >= 1

\* two Sad entries in a row and low risk: a third would make it medium
C5_Witness ==
  /\ PatternAnswered
  /\ Insights.riskLevel = "low"
  /\ \E data \in {Analysed} :
       /\ Len(data) > 0
       /\ LongestSadRun(data) = 2
       /\ riskLevelOf(3, SadIn(data), StressedIn(data), Len(data)) = "medium"

\* UTC days on which data has an entry
DaysOf(data) == {isoDate(data[i].timestamp) : i \in 1..Len(data)}

OnDay(data, d) == {i \in 1..Len(data) : isoDate(data[i].timestamp) = d}

\* strictly more than half of the entries of day d are Sad
SadMajority(data, d) ==
  2 * Cardinality({i \in OnDay(data, d) : data[i].moodState = "Sad"})
    > Cardinality(OnDay(data, d))

\* C8: the consecutive-sad value of the pattern analysis counts days whose
\* majority mood is Sad, so it is at most the number of such days, and the
\* flag 'N consecutive sad days detected' names at most that many days.
C8_ConsecutiveSadCountsDays ==
  PatternAnswered =>
    \A data \in {Analysed} :
      Len(data) > 0 =>
        \A sadDays \in {Cardinality({d \in DaysOf(data) : SadMajority(data, d)})} :
          /\ calculateMaxConsecutiveSad(data) <= sadDays
          /\ \A k \in 0..Len(data) :
               (ToString(k) \o " consecutive sad days detected")
                   \in Range(Insights.criticalPatterns) => k <= sadDays

\* the flags the four conditions call for, in their order
ExpectedFlags(run, stressed, stability, n) ==
  LET flag(cond, text) == IF cond THEN <<text>> ELSE << >>
  IN  flag(run >= 5, ToString(run) \o " consecutive sad days detected")
      \o flag(10 * stressed > 5 * n, "High stress frequency detected")
      \o flag(stability < 30, "High mood volatility detected")
      \o flag(n < 7, "Limited data available for comprehensive analysis")

\* C9: on non-empty data each of the four flags is present exactly when its
\* own condition holds (consecutive-sad >= 5, stressed fraction > 0.5,
\* stability < 0.3, fewer than 7 entries), in that order, whatever the risk.
C9_CriticalPatterns ==
  PatternAnswered =>
    \A data \in {Analysed} :
      Len(data) > 0 =>
        \A run \in {LongestSadRun(data)} :
          Insights.criticalPatterns =
            ExpectedFlags(run, StressedIn(data), Insights.moodStability,
                          Len(data))

\* the stress flag and the limited-data flag together, at low risk
C9_Witness ==
  /\ PatternAnswered
  /\ Insights.riskLevel = "low"
  /\ Insights.criticalPatterns =
       <<"High stress frequency detected",
         "Limited data available for comprehensive analysis">>

\* sum of the mood values of data at the positions of idx
ValueSum(data, idx) == Sum([k \in 1..Cardinality(idx) |->
  LET i == CHOOSE i \in idx : Cardinality({j \in idx : j < i}) = k - 1
  IN  IF data[i].moodState = "Happy" THEN 3
      ELSE IF data[i].moodState = "Sad" THEN 1 ELSE 2])

\* the trend of the mean over recent against the mean over older: above by
\* more than 0.3 improving, below by more than 0.3 declining, else stable
TrendOf(data, recent, older) ==
  LET r == ValueSum(data, recent) * Cardinality(older)
      o == ValueSum(data, older) * Cardinality(recent)
      margin == 3 * Cardinality(recent) * Cardinality(older)
  IN  IF 10 * (r - o) > margin THEN "improving"
      ELSE IF 10 * (o - r) > margin THEN "declining"
      ELSE "stable"

TriggerSucceeded ==
  /\ response.op = "n8n-trigger"
  /\ response.status = 200
  /\ response.n8nStatus = "success"

\* the history handed to analyzeMoodTrend, newest first
History == getMoodHistory(tz, now, moods, HistoryDays)

\* C10: the trend is improving when the mean mood value of the recent
\* window is more than 0.3 above that of the older window, declining when it
\* is more than 0.3 below, stable otherwise; in generateInsights the windows
\* are the last 7 entries and the 7 before them (the recent ones again when
\* there are none), in analyzeMoodTrend the 3 newest and the 3 oldest.
C10_TrendDirector ==
  /\ PatternAnswered =>
        \A data \in {Analysed} :
          Len(data) > 0 =>
            LET n == Len(data)
                recent == {i \in 1..n : i > n - 7}
                before == {i \in 1..n : i > n - 14 /\ i <= n - 7}
                older == IF before = {} THEN recent ELSE before
            IN  Insights.trendDirection = TrendOf(data, recent, older)
  /\ TriggerSucceeded =>
        \A history \in {History} :
          Len(history) >= 3 =>
            response.analytics.moodTrend =
              TrendOf(history, 1..3,
                      {i \in 1..Len(history) : i > Len(history) - 3})

\* a later week that is worse than the week before it
C10_Witness ==
  /\ PatternAnswered
  /\ Insights.trendDirection = "declining"
  /\ Len(Analysed) >= 14

----------------------------------------------------------------------------
(* The consecutive-sad-days detector of the trigger *)

\* the entries the detector fetched: the newest FetchLimit
Fetched == Limit(SortDesc(moods), FetchLimit)

\* the date key the detector looks up in its i-th round
ScanKey(i) == isoDate(addDays(tz, setHoursZero(tz, now), 0 - i))

RECURSIVE FirstScanned(_, _)
\* the first round from i on whose key has entries among data, as a set that
\* is empty when there is none
FirstScanned(data, i) ==
  IF i >= ScanDays THEN {}
  ELSE IF OnDay(data, ScanKey(i)) # {} THEN {i}
  ELSE FirstScanned(data, i + 1)

\* C6: a scanned day is sad only when strictly more than half of its entries
\* are Sad: the answer is at least 1 exactly when the first scanned day with
\* entries has such a majority (an even split is not sad, 2 of 3 is).
C6_SadDayIsStrictMajority ==
  TriggerSucceeded =>
    \A data \in {Fetched} :
      \A i \in FirstScanned(data, 0) :
        response.analytics.consecutiveSadDays >= 1
          <=> SadMajority(data, ScanKey(i))

\* the first scanned day holds two Sad entries and one other: it is counted
C6_Witness ==
  /\ TriggerSucceeded
  /\ response.analytics.consecutiveSadDays >= 1
  /\ \E data \in {Fetched} :
       \E i \in FirstScanned(data, 0) :
         /\ Cardinality(OnDay(data, ScanKey(i))) = 3
         /\ Cardinality({k \in OnDay(data, ScanKey(i)) :
                           data[k].moodState = "Sad"}) = 2

\* the calendar day of instant t, by the server's zone or by UTC
DayOf(t, local) == IF local THEN LocalDate(tz, t) ELSE isoDate(t)

EntriesOn(data, d, local) ==
  {i \in 1..Len(data) : DayOf(data[i].timestamp, local) = d}

RECURSIVE SadDaysFrom(_, _, _, _)
\* from day d backwards over left days: empty days are skipped, a day with a
\* Sad majority adds one, the first other day with entries ends the count
SadDaysFrom(data, d, left, local) ==
  IF left = 0 THEN 0
  ELSE IF EntriesOn(data, d, local) = {}
    THEN SadDaysFrom(data, d - 1, left - 1, local)
  ELSE IF 2 * Cardinality({i \in EntriesOn(data, d, local) :
                              data[i].moodState = "Sad"})
            > Cardinality(EntriesOn(data, d, local))
    THEN 1 + SadDaysFrom(data, d - 1, left - 1, local)
  ELSE 0

\* C7: the detector scans the 30 calendar days ending today from newest to
\* oldest, skips days without entries, adds one per sad-majority day and stops
\* at the first day with entries that is not sad-majority; calendar days are
\* read either as the server's local days or as UTC days.
C7_SadDaysEndingToday ==
  TriggerSucceeded =>
    \E data \in {Fetched} :
      \/ response.analytics.consecutiveSadDays =
           SadDaysFrom(data, DayOf(now, FALSE), ScanDays, FALSE)
      \/ response.analytics.consecutiveSadDays =
           SadDaysFrom(data, DayOf(now, TRUE), ScanDays, TRUE)

----------------------------------------------------------------------------
(* Too little data *)

\* C11: whenever fewer than 3 entries are available (one or two in the
\* pattern analysis, whose empty case has an answer of its own), the trend
\* reported is the sentinel insufficient_data, in the pattern analysis as well
\* as in the trigger's analytics.
C11_TrendSentinel ==
  /\ PatternAnswered =>
       (Len(Analysed) \in {1, 2} =>
          Insights.trendDirection = "insufficient_data")
  /\ TriggerSucceeded =>
       (Len(History) < 3 => response.analytics.moodTrend = "insufficient_data")

----------------------------------------------------------------------------
(* Recommendations for any insights value *)

\* insights values handed to generatePatternRecommendations; stability in
\* hundredths, on both sides of 0.5
InsightsValues ==
  [riskLevel : {"low", "medium", "high"},
   trendDirection : {"improving", "declining", "stable"},
   dominantMood : MoodStates \cup {"No data"},
   moodStability : {0, 49, 50, 91, 1000},
   criticalPatterns : {<< >>}]

InitAdvice ==
  /\ tz = "UTC"
  /\ now = PatternClock
  /\ moods = << >>
  /\ userStats = Null
  /\ moodAnalysis = << >>
  /\ \E insights \in InsightsValues :
       response = [op |-> "insights", insights |-> insights]
  /\ NoRequests

\* analysis.recommendations = generatePatternRecommendations(analysis)
Recommend ==
  /\ response.op = "insights"
  /\ response' = [op |-> "recommendations",
                  insights |-> response.insights,
                  recommendations |->
                    generatePatternRecommendations(response.insights)]
  /\ UNCHANGED <<tz, now, moods, userStats, moodAnalysis, client, requests,
               fetches>>

NextAdvice == Recommend

SpecAdvice == InitAdvice /\ [][NextAdvice]_vars

RiskAdvice(level) ==
  IF level = "high"
    THEN <<"Consider reaching out to a mental health professional immediately",
           "Contact a crisis helpline if you need immediate support",
           "Inform a trusted friend or family member about how you&apos;re feeling">>
  ELSE IF level = "medium"
    THEN <<"Schedule a check-in with a counselor or therapist",
           "Increase self-care activities and stress management techniques",
           "Consider joining a support group or mental health community">>
  ELSE << >>

TrendAdvice(trend) ==
  IF trend = "declining"
    THEN <<"Focus on identifying and addressing recent stressors",
           "Implement daily mindfulness or meditation practices",
           "Ensure you&apos;re maintaining healthy sleep and eating habits">>
  ELSE IF trend = "improving"
    THEN <<"Continue with current coping strategies that are working",
           "Document positive activities to repeat them",
           "Consider gradually increasing social activities">>
  ELSE << >>

MoodAdvice(mood) ==
  IF mood = "Stressed"
    THEN <<"Practice stress-reduction techniques like deep breathing",
           "Evaluate and potentially reduce sources of stress in your environment",
           "Consider time management and organizational strategies">>
  ELSE << >>

StabilityAdvice(stability) ==
  IF stability < 50
    THEN <<"Work on establishing consistent daily routines",
           "Track potential mood triggers in your environment",
           "Consider mood stabilization techniques with a professional">>
  ELSE << >>

Recommended == response.op = "recommendations"

\* C12: the recommendations are the first at most 6 strings of the risk,
\* trend, dominant-mood and stability catalogs that apply, in that order: never
\* more than 6, and with a risk catalog and a trend catalog both applying
\* no dominant-mood or stability advice appears.
C12_RecommendationsCapped ==
  Recommended =>
    LET i == response.insights
        all == RiskAdvice(i.riskLevel) \o TrendAdvice(i.trendDirection)
                 \o MoodAdvice(i.dominantMood)
                 \o StabilityAdvice(i.moodStability)
        got == response.recommendations
    IN  /\ Len(got) <= 6
        /\ Len(got) = IF Len(all) < 6 THEN Len(all) ELSE 6
        /\ \A k \in 1..Len(got) : got[k] = all[k]
        /\ (RiskAdvice(i.riskLevel) # << >>
              /\ TrendAdvice(i.trendDirection) # << >>) =>
             got = RiskAdvice(i.riskLevel) \o TrendAdvice(i.trendDirection)

\* all four catalogs apply: twelve strings, of which six are returned
C12_Witness ==
  /\ Recommended
  /\ response.insights.riskLevel = "high"
  /\ response.insights.trendDirection = "declining"
  /\ response.insights.dominantMood = "Stressed"
  /\ response.insights.moodStability < 50
  /\ Len(response.recommendations) = 6

----------------------------------------------------------------------------
(* The pattern analysis asked for again *)

\* the data of the repeated requests: at most two runs of moods, at both paces
InitRepeat ==
  /\ tz = "UTC"
  /\ now = PatternClock
  /\ \E runs \in {r \in RunLists : Len(r) <= 2}, stride \in Strides :
       moods = Paced(Unroll(runs), now, stride)
  /\ userStats = Null
  /\ moodAnalysis = << >>
  /\ response = [op |-> "none"]
  /\ NoRequests

NextRepeat ==
  /\ Len(moodAnalysis) < MaxRepeats
  /\ \E timeRange \in TimeRanges, includeRecommendations \in BOOLEAN :
       PostMoodPattern(timeRange, includeRecommendations)

SpecRepeat == InitRepeat /\ [][NextRepeat]_vars

\* two saved analyses were computed on the identical entry sequence
SameData(a, b) ==
  findMoodData(tz, now, moods, a.timeRange)
    = findMoodData(tz, now, moods, b.timeRange)

----------------------------------------------------------------------------
(* Few or no entries: the statistics and the pattern analysis of one user *)

\* a user with no entry or a single one, in every zone
InitSparse ==
  /\ tz \in Zones
  /\ now \in Clocks
  /\ moods \in Collections(EntryInstants, 1)
  /\ userStats = Null
  /\ moodAnalysis = << >>
  /\ response = [op |-> "none"]
  /\ NoRequests

NextSparse ==
  \/ GetUserStats
  \/ /\ Len(moodAnalysis) < MaxSaved
     /\ \E timeRange \in TimeRanges : PostMoodPattern(timeRange, TRUE)

SpecSparse == InitSparse /\ [][NextSparse]_vars

\* C14: with no entries the streak answered is 0 with no start date, and the
\* insights have riskLevel low and exactly the one critical pattern
\* 'Insufficient data for analysis'; both requests are answered with 200.
C14_EmptyInput ==
  /\ (StatsAnswered /\ moods = << >>) =>
       /\ response.status = 200
       /\ response.currentStreak = 0
       /\ response.streakStartDate = Null
  /\ PatternAnswered =>
       (Len(Analysed) = 0 =>
          /\ response.status = 200
          /\ Insights.riskLevel = "low"
          /\ Insights.criticalPatterns = <<"Insufficient data for analysis">>)

\* a user without entries has asked for the statistics and then the analysis
C14_Witness ==
  /\ moods = << >>
  /\ userStats # Null
  /\ userStats[1].currentStreak = 0
  /\ PatternAnswered
  /\ Insights.riskLevel = "low"
  /\ Len(Insights.criticalPatterns) = 1

----------------------------------------------------------------------------
(* POST /api/predictions/mood *)

\* sevenDaysAgo.setDate(sevenDaysAgo.getDate() - 7)
PredictionDays == 7
\* .limit(20)
HistoryLimit == 20

\* a number n / d that the code holds as a double; kept unreduced
Ratio(n, d) == [num |-> n, den |-> d]

\* the documents since seven days before the clock, newest first, at most 20
fetchMoodHistory(z, clock, collection) ==
  LET sevenDaysAgo == addDays(z, clock, 0 - PredictionDays)
  IN  Limit(SortDesc(SelectSeq(collection,
                               LAMBDA m : m.timestamp >= sevenDaysAgo)),
            HistoryLimit)

getFallbackPrediction ==
  [tomorrowMood |->
     [predicted |-> "Happy",
      confidence |-> 50,
      probability_distribution |->
        [Happy |-> Ratio(4, 10), Sad |-> Ratio(3, 10), Stressed |-> Ratio(3, 10)]],
   patterns |->
     [weeklyTrend |-> "insufficient_data",
      timeOfDayPattern |-> "need_more_entries",
      moodStability |-> Ratio(1, 2),
      riskFactors |-> <<"Limited historical data">>],
   insights |->
     [dominant_emotion_week |-> "Unknown",
      mood_volatility |-> "medium",
      recommendation |-> "Continue logging moods regularly."]]

RECURSIVE changesTimesTwoApart(_, _)
\* the changes with the hours between the two entries taken without sign
changesTimesTwoApart(moodData, i) ==
  IF i < 2 THEN 0
  ELSE changesTimesTwoApart(moodData, i - 1)
       + (IF moodData[i].moodState # moodData[i - 1].moodState
            THEN LET timeDiff == moodData[i - 1].timestamp
                                   - moodData[i].timestamp
                 IN  IF timeDiff < 24 THEN 1 ELSE 2
          ELSE 0)

\* twice the value of `changes` after the loop has run over positions 2 .. i:
\* timeDiff is the hours from entry i - 1 to entry i of the list as handed over
RECURSIVE changesTimesTwo(_, _)
changesTimesTwo(moodData, i) ==
  IF i < 2 THEN 0
  ELSE changesTimesTwo(moodData, i - 1)
       + (IF moodData[i].moodState # moodData[i - 1].moodState
            THEN LET timeDiff == moodData[i].timestamp
                                   - moodData[i - 1].timestamp
                 IN  IF timeDiff < 24 THEN 1 ELSE 2
          ELSE 0)

\* Math.max(0, 1 - changes / (n - 1)), and 0.5 for fewer than two entries
calculateStability(moodData) ==
  IF Len(moodData) < 2 THEN Ratio(1, 2)
  ELSE LET den == 2 * (Len(moodData) - 1)
       IN  Ratio(Max(0, den - changesTimesTwo(moodData, Len(moodData))), den)

\* stability > p / 10 and stability < p / 10
stabilityAbove(stability, p) == 10 * stability.num > p * stability.den
stabilityBelow(stability, p) == 10 * stability.num < p * stability.den

\* Object.entries(hourGroups).sort(([,a], [,b]) => b - a)[0][0], mapped
analyzeTimePattern(z, moodHistory) ==
  LET groupOf(m) ==
        LET hour == LocalHour(z, m.timestamp)
        IN  IF hour < 6 THEN "night"
            ELSE IF hour < 12 THEN "morning"
            ELSE IF hour < 18 THEN "afternoon"
            ELSE "evening"
      hourGroups == [g \in {"morning", "afternoon", "evening", "night"} |->
                       Cardinality({i \in 1..Len(moodHistory) :
                                      groupOf(moodHistory[i]) = g})]
      keys == <<"morning", "afternoon", "evening", "night">>
      first == CHOOSE k \in 1..4 :
                 /\ \A j \in 1..4 : hourGroups[keys[j]] <= hourGroups[keys[k]]
                 /\ \A j \in 1..(k - 1) : hourGroups[keys[j]] < hourGroups[keys[k]]
      maxGroup == keys[first]
  IN  IF maxGroup = "morning" THEN "morning_low"
      ELSE IF maxGroup = "afternoon" THEN "afternoon_peak"
      ELSE IF maxGroup = "evening" THEN "evening_high"
      ELSE "night_increase"

\* the weights 0.4, 0.3, 0.2, 0.1 in tenths
weights == <<4, 3, 2, 1>>

calculateStatisticalPrediction(z, moodHistory) ==
  IF Len(moodHistory) < 5 THEN getFallbackPrediction
  ELSE
    LET recentEntries == SliceLast(SliceLast(moodHistory, 7), 4)
        \* avgMood in tenths; totalWeight is 1
        avgMood == Sum([i \in 1..Len(recentEntries) |->
                          moodValue(recentEntries[i].moodState) * weights[i]])
        rounded == (avgMood + 5) \div 10
        distance == IF avgMood >= 10 * rounded THEN avgMood - 10 * rounded
                    ELSE 10 * rounded - avgMood
        confidence == 20 * distance + 10
        moodCounts == [m \in MoodStates |-> CountMood(recentEntries, m)]
        total == Len(moodHistory)
        stability == calculateStability(moodHistory)
        keys == <<"Happy", "Sad", "Stressed">>
        first == CHOOSE k \in 1..3 :
                   /\ \A j \in 1..3 : moodCounts[keys[j]] <= moodCounts[keys[k]]
                   /\ \A j \in 1..(k - 1) : moodCounts[keys[j]] < moodCounts[keys[k]]
    IN  [tomorrowMood |->
           [predicted |-> IF avgMood >= 25 THEN "Happy"
                          ELSE IF avgMood >= 15 THEN "Stressed" ELSE "Sad",
            confidence |-> IF confidence > 90 THEN 90
                           ELSE IF confidence < 50 THEN 50 ELSE confidence,
            probability_distribution |->
              [m \in MoodStates |-> Ratio(moodCounts[m], total)]],
         patterns |->
           [weeklyTrend |-> IF stabilityAbove(stability, 7) THEN "stable"
                            ELSE IF stabilityAbove(stability, 4) THEN "variable"
                            ELSE "volatile",
            timeOfDayPattern |-> analyzeTimePattern(z, moodHistory),
            moodStability |-> stability,
            riskFactors |-> IF stabilityBelow(stability, 4)
                            THEN <<"High mood volatility">> ELSE << >>],
         insights |->
           [dominant_emotion_week |-> keys[first],
            mood_volatility |-> IF stabilityAbove(stability, 7) THEN "low"
                                ELSE IF stabilityAbove(stability, 4) THEN "medium"
                                ELSE "high",
            recommendation |->
              IF stabilityBelow(stability, 4)
              THEN "Consider consulting a professional due to mood swings."
              ELSE "Maintain current mood tracking."]]

\* what the call to the inference API ends with: no key configured, a
\* response that is not ok, a thrown error, or a first label with its score
\* (in hundredths; 0 stands for a missing score)
HfLabels == {"joy", "sadness", "anger"}
HfScores == {0, 45, 65, 80, 90}
HfOutcomes ==
  {[kind |-> k, label |-> "", score |-> 0] :
     k \in {"no_key", "not_ok", "throws"}}
    \cup {[kind |-> "ok", label |-> l, score |-> s] :
            l \in HfLabels, s \in HfScores}

\* the value returned without a key, or from the catch block
hfUnavailable(recommendation) ==
  [insights |->
     [dominant_emotion_week |-> "Unknown",
      mood_volatility |-> "medium",
      recommendation |-> recommendation],
   patterns |->
     [weeklyTrend |-> "stable",
      timeOfDayPattern |-> "consistent",
      moodStability |-> Ratio(1, 2),
      riskFactors |-> << >>]]

analyzeWithHuggingFace(z, moodHistory, hf) ==
  IF hf.kind = "no_key"
    THEN hfUnavailable("Hugging Face API key missing; rely on statistical data.")
  ELSE IF hf.kind # "ok"
    THEN hfUnavailable("Hugging Face API unavailable; rely on statistical data.")
  ELSE
    LET emotions == IF hf.label = "" THEN "neutral" ELSE hf.label
        \* hfData[0]?.[0]?.score || 0.5
        confidence == IF hf.score = 0 THEN 50 ELSE hf.score
        hfDominantEmotion == IF emotions = "joy" THEN "Happy"
                             ELSE IF emotions = "sadness" THEN "Sad"
                             ELSE "Stressed"
        useHfEmotion == confidence > 80
    IN  [patterns |->
           [weeklyTrend |-> IF confidence > 60 THEN "stable" ELSE "variable",
            timeOfDayPattern |-> analyzeTimePattern(z, moodHistory),
            moodStability |->
              Ratio(IF confidence + 20 > 80 THEN 80 ELSE confidence + 20, 100),
            riskFactors |-> IF confidence < 50
                            THEN <<"Low confidence in emotion detection">>
                            ELSE << >>],
         insights |->
           [dominant_emotion_week |->
              IF useHfEmotion THEN hfDominantEmotion ELSE "Unknown",
            mood_volatility |-> IF confidence > 70 THEN "low"
                                ELSE IF confidence > 40 THEN "medium"
                                ELSE "high",
            recommendation |->
              "Focus on "
                \o (IF hfDominantEmotion = "Happy" THEN "maintaining"
                    ELSE IF hfDominantEmotion = "Sad" THEN "seeking support"
                    ELSE "managing stress")
                \o " with self-care."]]

\* { ...a, ...b }: the keys of both, b's value where both have the key
spread(a, b) ==
  [k \in DOMAIN a \cup DOMAIN b |-> IF k \in DOMAIN b THEN b[k] ELSE a[k]]

\* the requests tried: one without a userId, one whose query fails, and one
\* per outcome of the inference call
PredictionRequests ==
  {[userId |-> "", db |-> "ok", hf |-> h] : h \in {hf \in HfOutcomes : hf.kind = "no_key"}}
    \cup {[userId |-> "u1", db |-> "throws", hf |-> h] :
            h \in {hf \in HfOutcomes : hf.kind = "no_key"}}
    \cup {[userId |-> "u1", db |-> "ok", hf |-> h] : h \in HfOutcomes}

\* the handler; db tells whether the query of fetchMoodHistory succeeds
PostPrediction ==
  /\ \E moodHistory \in {fetchMoodHistory(tz, now, moods)} :
       \E statisticalPrediction \in
           {calculateStatisticalPrediction(tz, moodHistory)} :
         \E request \in PredictionRequests :
           /\ fetches' =
                IF /\ request.userId # ""
                   /\ request.db = "ok"
                   /\ Len(moodHistory) >= 3
                   /\ request.hf.kind # "no_key"
                THEN <<[url |-> "huggingface", outcome |-> request.hf.kind,
                        label |-> request.hf.label,
                        score |-> request.hf.score]>>
                ELSE << >>
           /\ response' =
             IF request.userId = ""
               THEN [op |-> "prediction", status |-> 400,
                     error |-> "Missing userId parameter"]
             ELSE IF request.db # "ok"
               THEN [op |-> "prediction", status |-> 200, success |-> FALSE,
                     error |-> "Prediction service temporarily unavailable",
                     prediction |-> getFallbackPrediction]
             ELSE IF Len(moodHistory) < 3
               THEN [op |-> "prediction", status |-> 200, success |-> TRUE,
                     prediction |-> getFallbackPrediction,
                     message |->
                       "Need at least 3 mood entries for accurate predictions"]
             ELSE
               LET hfInsights ==
                     analyzeWithHuggingFace(tz, moodHistory, request.hf)
               IN  [op |-> "prediction", status |-> 200, success |-> TRUE,
                    prediction |->
                      [tomorrowMood |-> statisticalPrediction.tomorrowMood,
                       patterns |-> spread(statisticalPrediction.patterns,
                                           hfInsights.patterns),
                       insights |-> spread(statisticalPrediction.insights,
                                           hfInsights.insights)],
                    metadata |->
                      [analyzed_entries |-> Len(moodHistory),
                       prediction_date |-> now,
                       model |-> "statistical+huggingface"]]
  /\ UNCHANGED <<tz, now, moods, userStats, moodAnalysis, client, requests>>

\* one request per behaviour: the handler keeps nothing between requests
NextPredict == response.op = "none" /\ PostPrediction

SpecPredict == InitPattern /\ [][NextPredict]_vars

----------------------------------------------------------------------------
(* Defaults on missing data *)

\* C15: with no entries to analyse the values reported are the conservative
\* defaults: risk low, trend stable and stability 0.5.
C15_ConservativeDefaults ==
  PatternAnswered =>
    (Len(Analysed) = 0 =>
       /\ Insights.riskLevel = "low"
       /\ Insights.trendDirection = "stable"
       /\ Insights.moodStability = 50)

----------------------------------------------------------------------------
(* The prediction of one request *)

\* the request was answered from the statistics of the history
Predicted ==
  /\ response.op = "prediction"
  /\ response.status = 200
  /\ "metadata" \in DOMAIN response

\* the history the handler passed on, newest first
Handed == fetchMoodHistory(tz, now, moods)

\* hours between two instants
Apart(t, u) == IF t >= u THEN t - u ELSE u - t

\* twice the changes of a history: a pair of neighbours of different moods
\* counts 1 when less than 24 hours apart and 2 otherwise
ChangesTimesTwo(history) ==
  Sum([k \in 1..(Len(history) - 1) |->
         IF history[k].moodState = history[k + 1].moodState THEN 0
         ELSE IF Apart(history[k].timestamp, history[k + 1].timestamp) < 24
           THEN 1
         ELSE 2])

\* C17: for the history handed to calculateStability, every pair of adjacent
\* entries of different moods adds 0.5 to the changes when less than 24 hours
\* apart and 1.0 otherwise, and the stability is max(0, 1 - changes / (n - 1)),
\* within 0 and 1.
C17_TransitionStability ==
  Predicted =>
    \A history \in {Handed} :
      Len(history) >= 5 =>
        \A stability \in {calculateStability(history)} :
          LET den == 2 * (Len(history) - 1)
              num == Max(0, den - ChangesTimesTwo(history))
          IN  /\ stability.num * den = num * stability.den
              /\ 0 <= stability.num
              /\ stability.num <= stability.den

----------------------------------------------------------------------------
(* Entries whose moodState is outside the enum *)

\* POST /api/moods stores any non-empty moodState
StoredStates == MoodStates \cup {"Angry"}

\* up to three entries of any stored state, at both paces
InitStored ==
  /\ tz = "UTC"
  /\ now = PatternClock
  /\ \E n \in 0..3 :
       \E ms \in [1..n -> StoredStates], stride \in Strides :
         moods = Paced(ms, now, stride)
  /\ userStats = Null
  /\ moodAnalysis = << >>
  /\ response = [op |-> "none"]
  /\ NoRequests

NextStored ==
  /\ Len(moodAnalysis) < MaxSaved
  /\ \E timeRange \in TimeRanges : PostMoodPattern(timeRange, TRUE)

SpecStored == InitStored /\ [][NextStored]_vars

\* the entries of data with a moodState of the enum
WellFormed(data) == SelectSeq(data, LAMBDA m : m.moodState \in MoodStates)

\* C16: the patterns and insights of an analysis equal those computed on the
\* same entries without the ones whose moodState is outside Happy, Sad and
\* Stressed, and the request is answered with 200.
C16_MalformedExcluded ==
  PatternAnswered =>
    \A data \in {Analysed} :
      /\ response.status = 200
      /\ response.analysis.patterns = groupMoodsByDate(tz, WellFormed(data))
      /\ Insights = generateInsights(WellFormed(data))

----------------------------------------------------------------------------
(* The prediction when the inference call fails *)

\* the texts by which an answer shows that the inference call failed
HfFailureTexts ==
  {"Hugging Face API key missing; rely on statistical data.",
   "Hugging Face API unavailable; rely on statistical data."}

HfFailed ==
  /\ Predicted
  /\ response.prediction.insights.recommendation \in HfFailureTexts

\* C18: when the Hugging Face call fails (no key, a response that is not OK,
\* or a thrown error) the request is answered with success and its patterns
\* and insights are those of calculateStatisticalPrediction on the history.
C18_GracefulDegradation ==
  HfFailed =>
    \A statistical \in {calculateStatisticalPrediction(tz, Handed)} :
      /\ response.success
      /\ response.prediction.patterns = statistical.patterns
      /\ response.prediction.insights = statistical.insights

\* the part of C18 that holds: the request completes with the statistical
\* prediction of tomorrow's mood
C18_RequestCompletes ==
  HfFailed =>
    /\ response.success
    /\ response.prediction.tomorrowMood =
         calculateStatisticalPrediction(tz, Handed).tomorrowMood

----------------------------------------------------------------------------
(* GET /api/user-stats, one step per await, on the shared client *)

\* what an operation issued on the client may do: on a closed client the
\* driver either rejects it or connects again by itself
OperationOutcomes == IF client = "open" THEN {"ok"} ELSE {"ok", "rejected"}

\* the catch block: status 500, then the finally block
failed(request) == [request EXCEPT !.pc = "close", !.status = 500]

\* await client.connect()
GetConnect(r) ==
  /\ requests[r].pc = "idle"
  /\ client' = "open"
  /\ requests' = [requests EXCEPT ![r].pc = "findOne"]
  /\ UNCHANGED <<tz, now, moods, userStats, moodAnalysis, response, fetches>>

\* await statsCollection.findOne({ userId })
GetFindOne(r) ==
  /\ requests[r].pc = "findOne"
  /\ \E outcome \in OperationOutcomes :
       IF outcome = "rejected"
       THEN /\ requests' = [requests EXCEPT ![r] = failed(@)]
            /\ UNCHANGED client
       ELSE /\ client' = "open"
            /\ requests' =
                 [requests EXCEPT ![r] =
                    IF userStats = Null
                    THEN [@ EXCEPT !.pc = "insertOne", !.longestStreak = 0]
                    ELSE [@ EXCEPT !.pc = "countWeek", !.clock = now,
                                   !.longestStreak = storedLongest(userStats)]]
  /\ UNCHANGED <<tz, now, moods, userStats, moodAnalysis, response, fetches>>

\* await statsCollection.insertOne(userStats): a second document of the same
\* user lies behind the first and is found by no later query
GetInsertOne(r) ==
  /\ requests[r].pc = "insertOne"
  /\ \E outcome \in OperationOutcomes :
       IF outcome = "rejected"
       THEN /\ requests' = [requests EXCEPT ![r] = failed(@)]
            /\ UNCHANGED <<client, userStats>>
       ELSE /\ client' = "open"
            /\ userStats' = Append(userStats,
                                   [currentStreak |-> 0,
                                    longestStreak |-> 0,
                                    totalMoodEntries |-> 0,
                                    thisWeekEntries |-> 0,
                                    updatedAt |-> now])
            /\ requests' = [requests EXCEPT ![r].pc = "countWeek",
                                            ![r].clock = now]
  /\ UNCHANGED <<tz, now, moods, moodAnalysis, response, fetches>>

\* await moodsCollection.countDocuments({ userId, timestamp: ... })
GetCountWeek(r) ==
  /\ requests[r].pc = "countWeek"
  /\ \E outcome \in OperationOutcomes :
       IF outcome = "rejected"
       THEN /\ requests' = [requests EXCEPT ![r] = failed(@)]
            /\ UNCHANGED client
       ELSE /\ client' = "open"
            /\ requests' =
                 [requests EXCEPT
                    ![r].pc = "countTotal",
                    ![r].thisWeekEntries =
                       countThisWeek(tz, requests[r].clock, moods)]
  /\ UNCHANGED <<tz, now, moods, userStats, moodAnalysis, response, fetches>>

\* await moodsCollection.countDocuments({ userId })
GetCountTotal(r) ==
  /\ requests[r].pc = "countTotal"
  /\ \E outcome \in OperationOutcomes :
       IF outcome = "rejected"
       THEN /\ requests' = [requests EXCEPT ![r] = failed(@)]
            /\ UNCHANGED client
       ELSE /\ client' = "open"
            /\ requests' = [requests EXCEPT ![r].pc = "calculateStreak",
                                            ![r].totalEntries = Len(moods)]
  /\ UNCHANGED <<tz, now, moods, userStats, moodAnalysis, response, fetches>>

\* await calculateStreak(userId): its own catch block answers a rejected
\* query with a streak of 0
GetCalculateStreak(r) ==
  /\ requests[r].pc = "calculateStreak"
  /\ \E outcome \in OperationOutcomes :
       IF outcome = "rejected"
       THEN /\ requests' =
                 [requests EXCEPT
                    ![r].pc = "updateOne",
                    ![r].streak = [current |-> 0, startDate |-> Null]]
            /\ UNCHANGED client
       ELSE /\ client' = "open"
            /\ requests' =
                 [requests EXCEPT
                    ![r].pc = "updateOne",
                    ![r].streak = calculateStreak(tz, now, moods)]
  /\ UNCHANGED <<tz, now, moods, userStats, moodAnalysis, response, fetches>>

\* await statsCollection.updateOne({ userId }, { $set: ... })
GetUpdateOne(r) ==
  /\ requests[r].pc = "updateOne"
  /\ \E outcome \in OperationOutcomes :
       IF outcome = "rejected"
       THEN /\ requests' = [requests EXCEPT ![r] = failed(@)]
            /\ UNCHANGED <<client, userStats>>
       ELSE LET longestStreak == Max(requests[r].streak.current,
                                     requests[r].longestStreak)
            IN  /\ client' = "open"
                /\ userStats' =
                     IF userStats = Null THEN userStats
                     ELSE [userStats EXCEPT ![1] =
                             [currentStreak |-> requests[r].streak.current,
                              longestStreak |-> longestStreak,
                              totalMoodEntries |-> requests[r].totalEntries,
                              thisWeekEntries |-> requests[r].thisWeekEntries,
                              updatedAt |-> now]]
                /\ requests' = [requests EXCEPT
                                  ![r].pc = "close",
                                  ![r].longestStreak = longestStreak]
  /\ UNCHANGED <<tz, now, moods, moodAnalysis, response, fetches>>

\* finally { await client.close() }, then the response is sent
GetClose(r) ==
  /\ requests[r].pc = "close"
  /\ client' = "closed"
  /\ requests' = [requests EXCEPT ![r].pc = "done"]
  /\ response' =
       IF requests[r].status = 500
       THEN [op |-> "user-stats", status |-> 500,
             error |-> "Failed to fetch user stats"]
       ELSE [op |-> "user-stats",
             status |-> 200,
             currentStreak |-> requests[r].streak.current,
             longestStreak |-> requests[r].longestStreak,
             totalMoodEntries |-> requests[r].totalEntries,
             thisWeekEntries |-> requests[r].thisWeekEntries,
             weekPercentage |-> weekPercentage(requests[r].thisWeekEntries),
             streakStartDate |-> requests[r].streak.startDate]
  /\ fetches' = << >>
  /\ UNCHANGED <<tz, now, moods, userStats, moodAnalysis>>

\* POST /api/moods: moodsCollection.insertOne(moodData), stamped with the
\* current time
InsertMood(moodState) ==
  /\ moods' = Append(moods, [timestamp |-> now, moodState |-> moodState])
  /\ UNCHANGED <<tz, now, userStats, moodAnalysis, response, client, requests, fetches>>

\* a day passes on the server clock
PassDay ==
  /\ now' = now + 24
  /\ UNCHANGED <<tz, moods, userStats, moodAnalysis, response, client, requests, fetches>>

\* the requests start at noon of the switch day
FirstClock == DstDay * 24 + 12

\* entries logged at 23:00Z on the days before
EarlierEvenings == {t \in EntryInstants : t < FirstClock /\ t % 24 = 23}

InitParallel ==
  /\ tz = "UTC"
  /\ now = FirstClock
  /\ moods \in {c \in Collections(EarlierEvenings, MaxEntries) : IsAscending(c)}
  /\ userStats = Null
  /\ moodAnalysis = << >>
  /\ response = [op |-> "none"]
  /\ NoRequests

NextParallel ==
  \/ \E r \in Requests :
       \/ GetConnect(r)
       \/ GetFindOne(r)
       \/ GetInsertOne(r)
       \/ GetCountWeek(r)
       \/ GetCountTotal(r)
       \/ GetCalculateStreak(r)
       \/ GetUpdateOne(r)
       \/ GetClose(r)
  \/ /\ \A i \in 1..Len(moods) : moods[i].timestamp # now
     /\ InsertMood("Happy")
  \/ /\ now = FirstClock
     /\ PassDay

SpecParallel == InitParallel /\ [][NextParallel]_vars

----------------------------------------------------------------------------
(* The longest streak on record *)

\* C19: over any interleaving of GET /api/user-stats requests, insertions of
\* moods and passing days, the longestStreak persisted in user_stats never
\* becomes smaller than a value persisted before.
C19_LongestNeverDecreases ==
  [][(userStats # Null /\ userStats' # Null) =>
       userStats'[1].longestStreak >= userStats[1].longestStreak]_vars

----------------------------------------------------------------------------
(* Requests handled at the same time *)

\* the positions at which a request issues an operation on the client
Operations ==
  {"findOne", "insertOne", "countWeek", "countTotal", "calculateStreak",
   "updateOne"}

\* C20: no request issues a database operation on the shared client after
\* the finally block of another request has closed it.
C20_NoOperationAfterClose ==
  [][\A r \in Requests :
       (requests[r].pc \in Operations /\ requests'[r] # requests[r]) =>
         client # "closed"]_vars

\* a single request is never caught by a close: it is the second request
\* that makes the difference
C20_AloneIsSafe ==
  [][\A r \in Requests :
       (/\ requests[r].pc \in Operations
        /\ requests'[r] # requests[r]
        /\ \A q \in Requests \ {r} : requests[q].pc = "idle") =>
         client = "open"]_vars

----------------------------------------------------------------------------
(* POST /api/moods *)

\* request bodies: complete, with a field missing, with a moodState
\* outside the enum; the page stamps each with the current time
MoodBodies ==
  {[userId |-> u, moodText |-> t, moodState |-> m] :
     u \in {"", "u1"}, t \in {"", "text"}, m \in {"", "Sad", "Angry"}}

\* how the call of /api/n8n/trigger may end: answered ok, answered ok with
\* a body that is no JSON, answered with an error status, or thrown
TriggerCallOutcomes == {"ok", "bad_body", "not_ok", "throws"}

\* a triggerN8nWorkflow without its catch block
triggerN8nWorkflowUncaught(trigger) ==
  IF trigger \in {"bad_body", "throws"} THEN "throws" ELSE "returns"

\* triggerN8nWorkflow: every error of the call is caught and logged
triggerN8nWorkflow(trigger) == "returns"

PostMood(body, insert, trigger) ==
  IF body.moodText = "" \/ body.moodState = "" \/ body.userId = ""
  THEN /\ response' = [op |-> "moods", status |-> 400,
                       error |-> "Missing required fields"]
       /\ fetches' = << >>
       /\ UNCHANGED <<tz, now, moods, userStats, moodAnalysis, client, requests>>
  ELSE IF insert = "throws"
  THEN /\ response' = [op |-> "moods", status |-> 500,
                       error |-> "Server error while saving mood"]
       /\ fetches' = << >>
       /\ UNCHANGED <<tz, now, moods, userStats, moodAnalysis, client, requests>>
  ELSE /\ moods' = Append(moods, [timestamp |-> now,
                                  moodState |-> body.moodState])
       /\ fetches' = <<[url |-> "/api/n8n/trigger", outcome |-> trigger]>>
       /\ response' =
            IF triggerN8nWorkflow(trigger) = "throws"
            THEN [op |-> "moods", status |-> 500,
                  error |-> "Server error while saving mood"]
            ELSE [op |-> "moods", status |-> 201,
                  moodState |-> body.moodState,
                  timestamp |-> now,
                  message |-> "Mood saved successfully"]
       /\ UNCHANGED <<tz, now, userStats, moodAnalysis, client, requests>>

InitLog ==
  /\ tz = "UTC"
  /\ now = FirstClock
  /\ moods \in {c \in Collections(EarlierEvenings, MaxEntries) : IsAscending(c)}
  /\ userStats = Null
  /\ moodAnalysis = << >>
  /\ response = [op |-> "none"]
  /\ NoRequests

NextLog ==
  /\ Len(moods) <= MaxEntries
  /\ \E body \in MoodBodies, insert \in {"ok", "throws"},
        trigger \in TriggerCallOutcomes :
       PostMood(body, insert, trigger)

SpecLog == InitLog /\ [][NextLog]_vars

\* the handler called the trigger, which it does once the document is in
MoodInserted == response.op = "moods" /\ fetches # << >>

\* C21: once the mood document is inserted, POST /api/moods answers 201 with
\* the saved entry, whatever the call of the n8n trigger ended with.
C21_LogNeverFailedByTrigger ==
  MoodInserted =>
    /\ response.status = 201
    /\ moods # << >>
    /\ response.moodState = moods[Len(moods)].moodState
    /\ response.timestamp = moods[Len(moods)].timestamp

C21_Witness ==
  /\ MoodInserted
  /\ fetches[1].outcome \in {"not_ok", "throws"}
  /\ response.status = 201

----------------------------------------------------------------------------
(* groupMoodsByDate on stored entries *)

\* mood states found in stored documents: those of the enum, one outside
\* it, and one that names the prototype accessor of every object
GroupedStates == StoredStates \cup {"__proto__"}

InitGroup ==
  /\ tz = "UTC"
  /\ now = PatternClock
  /\ \E n \in 0..3 :
       \E ms \in [1..n -> GroupedStates], stride \in Strides :
         moods = Paced(ms, now, stride)
  /\ userStats = Null
  /\ moodAnalysis = << >>
  /\ response = [op |-> "none"]
  /\ NoRequests

\* const patterns = groupMoodsByDate(typedMoodData)
GroupMoods ==
  /\ response.op = "none"
  /\ response' = [op |-> "patterns",
                  patterns |-> groupMoodsByDate(tz, moods)]
  /\ UNCHANGED <<tz, now, moods, userStats, moodAnalysis, client, requests,
                 fetches>>

NextGroup == GroupMoods

SpecGroup == InitGroup /\ [][NextGroup]_vars

\* the entries of data with the UTC date and the mood given
PairEntries(data, date, mood) ==
  SelectSeq(data, LAMBDA m : isoDate(m.timestamp) = date /\ m.moodState = mood)

RECURSIVE FrequencySum(_)
FrequencySum(patterns) ==
  IF patterns = << >> THEN 0
  ELSE Head(patterns).frequency + FrequencySum(Tail(patterns))

\* the three parts of C22 for the patterns ps computed from data
OnePatternPerPair(ps, data) ==
  /\ \A i \in 1..Len(data) :
       Cardinality({k \in 1..Len(ps) :
                      /\ ps[k].date = isoDate(data[i].timestamp)
                      /\ ps[k].mood = data[i].moodState}) = 1
  /\ \A k \in 1..Len(ps) :
       ps[k].frequency = Len(PairEntries(data, ps[k].date, ps[k].mood))
  /\ \A k \in 1..Len(ps) : ps[k].frequency >= 1
  /\ FrequencySum(ps) = Len(data)

\* C22: groupMoodsByDate gives exactly one pattern for each pair of date and
\* mood found in its input and none for other pairs, the frequency of a
\* pattern is the number of entries of its date and mood, and the frequencies
\* add up to the number of entries.
C22_OnePatternPerPair ==
  response.op = "patterns" => OnePatternPerPair(response.patterns, moods)

\* the part of C22 that holds: inputs whose mood states are ordinary names
C22_OrdinaryStates ==
  (/\ response.op = "patterns"
   /\ \A i \in 1..Len(moods) : moods[i].moodState # "__proto__") =>
    OnePatternPerPair(response.patterns, moods)

\* the same through the handler, on what the query handed over
C22_ThroughHandler ==
  PatternAnswered =>
    \A data \in {Analysed} : OnePatternPerPair(response.analysis.patterns, data)

----------------------------------------------------------------------------
(* POST /api/n8n/trigger against every behaviour of the webhook *)

\* request bodies: those of TriggerBodies, bodies without moodText or
\* without moodState, and a body that is the JSON null
TriggerRequests ==
  TriggerBodies \cup
  {[userId |-> "u1", moodText |-> "", moodState |-> "Sad"],
   [userId |-> "u1", moodText |-> "text", moodState |-> ""],
   [json |-> "null"]}

\* what the webhook does on each of the attempts
WebhookScripts == [1..WebhookRetries -> AttemptOutcomes]

\* one request per behaviour: the handler keeps nothing between requests
NextTrigger ==
  /\ response.op = "none"
  /\ \E body \in TriggerRequests, script \in WebhookScripts :
       N8nTrigger(body, script)

SpecTrigger == InitLog /\ [][NextTrigger]_vars

\* the request lacks one of the required fields
MissingField(body) ==
  \/ ~isObject(body)
  \/ body.userId = "" \/ body.moodText = "" \/ body.moodState = ""

PassesValidation(body) ==
  ~MissingField(body) /\ body.moodState \in MoodStates

\* the two halves of C23 for a request with the body given
Refused == response'.status = 400 /\ fetches' = << >>

Accepted ==
  /\ response'.status = 200
  /\ response'.success
  /\ response'.n8nStatus \in {"success", "failed", "error"}

\* C23: a request to the n8n trigger that lacks userId, moodText or
\* moodState, or names a moodState outside the enum, is answered 400 without
\* a call of the webhook; every other request is answered 200 with success
\* true and an n8nStatus of success, failed or error, whatever the webhook
\* does.
C23_TriggerValidation ==
  [][\A body \in TriggerRequests, script \in WebhookScripts :
       N8nTrigger(body, script) =>
         IF PassesValidation(body) THEN Accepted ELSE Refused]_vars

\* the part of C23 that holds: requests whose body is a JSON object
C23_ObjectBodies ==
  [][\A body \in {b \in TriggerRequests : isObject(b)},
        script \in WebhookScripts :
       N8nTrigger(body, script) =>
         IF PassesValidation(body) THEN Accepted ELSE Refused]_vars

----------------------------------------------------------------------------
(* fetchWithRetry, one attempt at a time *)

\* the outcomes of the fetches made so far
attemptsMade == [i \in 1..Len(fetches) |-> fetches[i].outcome]

\* one pass of the loop of fetchWithRetry for a request that passed
\* validation: the fetch returns, throws, or is aborted by the timer
TriggerAttempt(outcome) ==
  /\ response.op = "none"
  /\ ~loopEnded(attemptsMade, WebhookRetries)
  /\ fetches' = Append(fetches, [url |-> "webhook", outcome |-> outcome])
  /\ UNCHANGED <<tz, now, moods, userStats, moodAnalysis, response, client,
                 requests>>

\* the loop is over: the handler answers by the response returned or by the
\* error thrown
TriggerRespond ==
  /\ response.op = "none"
  /\ loopEnded(attemptsMade, WebhookRetries)
  /\ response' =
       webhookAnswer(IF attemptsMade[Len(fetches)] \in {"throws", "timeout"}
                     THEN "All retry attempts failed"
                     ELSE attemptsMade[Len(fetches)],
                     tz, now, moods)
  /\ UNCHANGED <<tz, now, moods, userStats, moodAnalysis, client, requests,
                 fetches>>

NextRetry ==
  \/ \E outcome \in AttemptOutcomes : TriggerAttempt(outcome)
  \/ TriggerRespond

\* every fetch ends, by itself or by the timer, and the loop goes on
SpecRetry == InitLog /\ [][NextRetry]_vars /\ WF_vars(NextRetry)

Failing(i) == attemptsMade[i] \in {"throws", "timeout"}

TriggerAnswered == response.op = "n8n-trigger" /\ response.status = 200

\* at most WebhookRetries attempts, none after one that returned, and the
\* error only after WebhookRetries attempts that all failed
RetryShape ==
  /\ Len(fetches) <= WebhookRetries
  /\ \A i \in 1..(Len(fetches) - 1) : Failing(i)
  /\ (TriggerAnswered /\ fetches # << >>) =>
       /\ response.n8nStatus = "error" <=>
            (Len(fetches) = WebhookRetries /\ \A i \in 1..Len(fetches) : Failing(i))
       /\ response.n8nStatus = "failed" <=> attemptsMade[Len(fetches)] = "not_ok"
       /\ response.n8nStatus = "success" <=>
            attemptsMade[Len(fetches)] \in {"ok", "bad_body"}

\* C24: fetchWithRetry makes at most `retries` attempts one after another,
\* returns the response of the first attempt that does not throw, also one
\* that is not ok, without a further attempt, throws only after `retries`
\* attempts that each threw or timed out, and always comes to an end.
C24_RetryTerminates == []RetryShape /\ <>TriggerAnswered

\* a response that is not ok was returned after two failed attempts
C24_Witness ==
  /\ TriggerAnswered
  /\ Len(fetches) = WebhookRetries
  /\ Failing(1) /\ Failing(2)
  /\ attemptsMade[WebhookRetries] = "not_ok"
  /\ response.n8nStatus = "failed"

----------------------------------------------------------------------------
(* The override of the dominant emotion *)

\* the inference call of the request answered returned a label and a score
HfAnswered ==
  /\ Predicted
  /\ fetches # << >>
  /\ fetches[1].outcome = "ok"

\* confidence of the inference, in hundredths: the score, 0.5 without one
HfConfidence == IF fetches[1].score = 0 THEN 50 ELSE fetches[1].score

HfEmotion ==
  IF fetches[1].label = "joy" THEN "Happy"
  ELSE IF fetches[1].label = "sadness" THEN "Sad"
  ELSE "Stressed"

\* C25: the dominant_emotion_week of the response is the Hugging Face emotion
\* only when the confidence of the inference is above 0.8; at 0.8 or below it
\* is the dominant mood computed by calculateStatisticalPrediction.
C25_OverrideThreshold ==
  HfAnswered =>
    response.prediction.insights.dominant_emotion_week =
      IF HfConfidence > 80 THEN HfEmotion
      ELSE calculateStatisticalPrediction(tz, Handed).insights.dominant_emotion_week

\* the part of C25 that holds: above 0.8 the emotion of the inference is
\* reported, and it is reported in no other case
C25_OverrideAboveThreshold ==
  HfAnswered =>
    /\ HfConfidence > 80 =>
         response.prediction.insights.dominant_emotion_week = HfEmotion
    /\ HfConfidence <= 80 =>
         response.prediction.insights.dominant_emotion_week = "Unknown"

----------------------------------------------------------------------------
(* The entries behind the prediction of tomorrow's mood *)

\* moodToNumber of the statistical prediction
MoodNumber(m) == IF m = "Happy" THEN 3 ELSE IF m = "Stressed" THEN 2 ELSE 1

\* the weighted average, in tenths, of the four entries of history at the
\* positions given, the first position weighing 0.4 and the last 0.1
WeightedAverage(history, positions) ==
  4 * MoodNumber(history[positions[1]].moodState)
  + 3 * MoodNumber(history[positions[2]].moodState)
  + 2 * MoodNumber(history[positions[3]].moodState)
  + MoodNumber(history[positions[4]].moodState)

\* predicted mood and confidence (in hundredths) of an average in tenths
TomorrowFrom(average) ==
  LET nearest == ((average + 5) \div 10) * 10
      distance == IF average >= nearest THEN average - nearest
                  ELSE nearest - average
      raw == 20 * distance + 10
  IN  [predicted |-> IF average >= 25 THEN "Happy"
                     ELSE IF average >= 15 THEN "Stressed" ELSE "Sad",
       confidence |-> IF raw > 90 THEN 90 ELSE IF raw < 50 THEN 50 ELSE raw]

\* C26: with a history of at least 5 entries, newest first, the predicted
\* mood comes from the weighted average of the 4 most recent entries, the
\* most recent weighing 0.4 and the oldest of the four 0.1.
C26_WeightsOnMostRecent ==
  (Predicted /\ Len(Handed) >= 5) =>
    \A history \in {Handed} :
      \A tomorrow \in {TomorrowFrom(WeightedAverage(history, <<1, 2, 3, 4>>))} :
        /\ response.prediction.tomorrowMood.predicted = tomorrow.predicted
        /\ response.prediction.tomorrowMood.confidence = tomorrow.confidence

\* what the code computes: the average of the last four entries of the
\* list, which are the four oldest of a history that is newest first
C26_WeightsOnLastOfList ==
  (Predicted /\ Len(Handed) >= 5) =>
    \A history \in {Handed} :
      \A n \in {Len(history)} :
        \A tomorrow \in
            {TomorrowFrom(WeightedAverage(history, <<n - 3, n - 2, n - 1, n>>))} :
          /\ response.prediction.tomorrowMood.predicted = tomorrow.predicted
          /\ response.prediction.tomorrowMood.confidence = tomorrow.confidence

----------------------------------------------------------------------------
(* The range of the variance-based stability *)

\* the recommendations given for a moodStability below 0.5
StabilityCatalog ==
  {"Work on establishing consistent daily routines",
   "Track potential mood triggers in your environment",
   "Consider mood stabilization techniques with a professional"}

\* C27: for non-empty data the moodStability of generateInsights lies between
\* 0.91 and 10, so neither the 'High mood volatility detected' flag nor a
\* recommendation of the stability catalog is produced; the stability catalog
\* is produced for the empty-data result only, whose moodStability is 0.
C27_StabilityRange ==
  PatternAnswered =>
    \A data \in {Analysed} :
      /\ data # << >> =>
           /\ Insights.moodStability >= 91
           /\ Insights.moodStability <= 1000
           /\ "High mood volatility detected" \notin Range(Insights.criticalPatterns)
           /\ Range(response.analysis.recommendations) \cap StabilityCatalog = {}
      /\ data = << >> =>
           /\ Insights.moodStability = 0
           /\ StabilityCatalog \subseteq Range(response.analysis.recommendations)

\* a Happy and a Sad entry: variance 1, the smallest stability there is
C27_Witness ==
  /\ PatternAnswered
  /\ Len(Analysed) = 2
  /\ Insights.moodStability = 91
  /\ "recommendations" \in DOMAIN response.analysis

----------------------------------------------------------------------------
(* Stability of a history that is newest first *)

\* the positions of the history whose entry differs in mood from the one before
MoodChanges(history) ==
  {i \in 2..Len(history) : history[i].moodState # history[i - 1].moodState}

\* the statistical prediction reports a volatile history
ReportsVolatile(statistical) ==
  \/ statistical.patterns.weeklyTrend = "volatile"
  \/ statistical.insights.mood_volatility = "high"
  \/ \E k \in 1..Len(statistical.patterns.riskFactors) :
       statistical.patterns.riskFactors[k] = "High mood volatility"

\* C28: in the prediction handler the history reaches calculateStability
\* newest first, so the time difference from an entry to the next is never
\* positive, every mood change adds 0.5 to the changes, the stability is at
\* least 0.5, and the statistical prediction never reports the weekly trend
\* volatile, the mood volatility high or the risk factor of high volatility.
C28_NeverVolatile ==
  Predicted =>
    \A history \in {Handed} :
      \A stability \in {calculateStability(history)} :
        \A statistical \in {calculateStatisticalPrediction(tz, history)} :
          /\ \A i \in 2..Len(history) :
               history[i].timestamp - history[i - 1].timestamp <= 0
          /\ changesTimesTwo(history, Len(history))
               = Cardinality(MoodChanges(history))
          /\ 2 * stability.num >= stability.den
          /\ 2 * statistical.patterns.moodStability.num
               >= statistical.patterns.moodStability.den
          /\ ~ReportsVolatile(statistical)

\* a history of at least five entries was predicted from, with a mood change
\* between two entries a day or more apart
C28_Witness ==
  /\ Predicted
  /\ \E history \in {Handed} :
       /\ Len(history) >= 5
       /\ \E i \in MoodChanges(history) :
            history[i - 1].timestamp - history[i].timestamp >= 24
       /\ calculateStatisticalPrediction(tz, history).patterns.moodStability
            = calculateStability(history)

----------------------------------------------------------------------------
(* Trend of at most seven entries *)

\* C29: in generateInsights, for an input of 1 to 7 entries the older window
\* (entries 8 to 14 from the end) is empty, the older mean is the recent mean,
\* and trendDirection is 'stable' whatever the moods are.
C29_ShortInputStable ==
  PatternAnswered =>
    \A moodData \in {Analysed} :
      (Len(moodData) >= 1 /\ Len(moodData) <= 7) =>
        /\ SliceBetween(moodData, 14, 7) = << >>
        /\ SliceLast(moodData, 7) = moodData
        /\ Insights.trendDirection = "stable"

\* seven entries were analysed, the oldest Sad and the newest Happy
C29_Witness ==
  /\ PatternAnswered
  /\ \E moodData \in {Analysed} :
       /\ Len(moodData) = 7
       /\ moodData[1].moodState = "Sad"
       /\ moodData[7].moodState = "Happy"
  /\ Insights.trendDirection = "stable"

----------------------------------------------------------------------------
(* Probability distribution of tomorrow's mood *)

\* the distribution answered by the prediction request
Distribution == response.prediction.tomorrowMood.probability_distribution

\* the counts that were divided by the length of the history, added up
CountsAdded(distribution) ==
  distribution["Happy"].num + distribution["Sad"].num
    + distribution["Stressed"].num

\* every value is a count over the length of the history, between 0 and 1
WithinUnit(distribution, total) ==
  \A m \in MoodStates :
    /\ distribution[m].den = total
    /\ distribution[m].num >= 0
    /\ distribution[m].num <= distribution[m].den

C30_CountsOfFourEntries ==
  Predicted =>
    \A history \in {Handed} :
      Len(history) >= 5 =>
        /\ WithinUnit(Distribution, Len(history))
        /\ CountsAdded(Distribution) = 4

====
